---- MODULE Spec2Model ----
(***************************************************************************)
(* State-machine model of the SMBus transaction engine of scd-hwmon.c:     *)
(* scd_smbus_access_impl -> scd_smbus_do -> scd_smbus_do_impl /            *)
(* scd_smbus_block_read, with smbus_check_resp, smbus_master_read_resp and *)
(* smbus_master_reset.  One step of a thread is one register access (or    *)
(* one lock operation); the hardware's answers are nondeterministic.       *)
(***************************************************************************)
EXTENDS Integers, Sequences, FiniteSets, TLC

VARIABLES
    th,       \* per thread: the locals of the call chain of one transaction
    mutex,    \* per master id: the thread holding master->mutex, 0 when free
    mem,      \* register window: offset -> last value written (request, control/status)
    dirty,    \* per master id: a response failed and no reset has completed since
    smaster,  \* per master id: struct scd_smbus_master (addr, br_supported, max_retries, ver)
    bparams,  \* per <<master id, bus id>>: the bus's list of struct bus_params
    env,      \* what the hardware may answer in this run (fault kinds, lengths, delays)
    cr,       \* one call outside a transaction (smbus_check_resp,
              \* scd_set_smbus_params): its arguments and its result
    tgt,      \* the target device behind the master: the phases of the
              \* exchange in progress and the bytes stored per <<address, command>>
    md,       \* the MDIO master: its mutex, req_id and registers, the callers of
              \* scd_mii_bus_do, and the PHY behind it
    ctx       \* struct scd_context: initialized, res_size, the lists of SMBus and
              \* MDIO masters, and what the last registry operation did

(* The variables the SMBus engine's actions leave alone. *)
rest == <<cr, tgt, md, ctx>>

vars == <<th, mutex, mem, dirty, smaster, bparams, env, cr, tgt, md, ctx>>

(* The variables outside the MDIO master, which the MDIO actions leave alone. *)
smbus_vars == <<th, mutex, mem, dirty, smaster, bparams, env, cr, tgt, ctx>>

(* ---------------------------------------------------------------------- *)
(* Program constants                                                       *)
(* ---------------------------------------------------------------------- *)
SMBUS_REQUEST_OFFSET == 16
SMBUS_CONTROL_STATUS_OFFSET == 32
SMBUS_RESPONSE_OFFSET == 48
MASTER_DEFAULT_MAX_RETRIES == 6
SMBUS_BLOCK_READ_TIMEOUT_STEP == 1
FIFO_RETRIES == 20
EIO == 5
EINVAL == 22
I2C_SMBUS_WRITE == 0
I2C_SMBUS_READ == 1
SMBUS_ACCESS_DATA_SIZE == 34     \* I2C_SMBUS_BLOCK_MAX + 2, scd_smbus_access

default_smbus_params == [addr |-> 0, t |-> 1, datw |-> 3, datr |-> 3, ed |-> 0]

(* ---------------------------------------------------------------------- *)
(* Register codec: the bit-field views.  A store to a field keeps the low  *)
(* bits that fit the field's width.                                        *)
(* ---------------------------------------------------------------------- *)
Pow2(n) == 2 ^ n

Trunc(v, width) == v % Pow2(width)

smbus_request_reg == [d |-> 0, ss |-> 0, ed |-> 0, br |-> 0, dat |-> 0, t |-> 0,
                      sp |-> 0, da |-> 0, dod |-> 0, st |-> 0, bs |-> 0, ti |-> 0]

smbus_response_reg == [d |-> 0, bus_conflict_error |-> 0, timeout_error |-> 0,
                       ack_error |-> 0, flushed |-> 0, ti |-> 0, ss |-> 0,
                       foe |-> 0, fe |-> 0]

smbus_ctrl_status_reg == [fs |-> 0, foe |-> 0, brb |-> 0, ver |-> 0, fe |-> 0, reset |-> 0]

Bool2Int(b) == IF b THEN 1 ELSE 0

AddrByte(addr, rwbit) == Trunc(((addr % 256) * 2) + rwbit, 8)

(* ---------------------------------------------------------------------- *)
(* smbus_check_resp: first matching condition wins, -EIO on any of them.   *)
(* ---------------------------------------------------------------------- *)
smbus_check_resp_overflow_first(resp, tid) ==
    IF resp.fe # 0 THEN [ret |-> -EIO, error |-> "fe"]
    ELSE IF resp.ack_error # 0 THEN [ret |-> -EIO, error |-> "ack"]
    ELSE IF resp.timeout_error # 0 THEN [ret |-> -EIO, error |-> "timeout"]
    ELSE IF resp.bus_conflict_error # 0 THEN [ret |-> -EIO, error |-> "conflict"]
    ELSE IF resp.flushed # 0 THEN [ret |-> -EIO, error |-> "flush"]
    ELSE IF resp.foe # 0 THEN [ret |-> -EIO, error |-> "overflow"]
    ELSE IF resp.ti # tid THEN [ret |-> -EIO, error |-> "tid"]
    ELSE [ret |-> 0, error |-> ""]

smbus_check_resp_no_tid(resp, tid) ==
    IF resp.fe # 0 THEN [ret |-> -EIO, error |-> "fe"]
    ELSE IF resp.ack_error # 0 THEN [ret |-> -EIO, error |-> "ack"]
    ELSE IF resp.timeout_error # 0 THEN [ret |-> -EIO, error |-> "timeout"]
    ELSE IF resp.bus_conflict_error # 0 THEN [ret |-> -EIO, error |-> "conflict"]
    ELSE IF resp.flushed # 0 THEN [ret |-> -EIO, error |-> "flush"]
    ELSE IF resp.foe # 0 THEN [ret |-> -EIO, error |-> "overflow"]
    ELSE [ret |-> 0, error |-> ""]

smbus_check_resp(resp, tid) ==
    IF resp.fe # 0 THEN [ret |-> -EIO, error |-> "fe"]
    ELSE IF resp.ack_error # 0 THEN [ret |-> -EIO, error |-> "ack"]
    ELSE IF resp.timeout_error # 0 THEN [ret |-> -EIO, error |-> "timeout"]
    ELSE IF resp.bus_conflict_error # 0 THEN [ret |-> -EIO, error |-> "conflict"]
    ELSE IF resp.flushed # 0 THEN [ret |-> -EIO, error |-> "flush"]
    ELSE IF resp.ti # tid THEN [ret |-> -EIO, error |-> "tid"]
    ELSE IF resp.foe # 0 THEN [ret |-> -EIO, error |-> "overflow"]
    ELSE [ret |-> 0, error |-> ""]

(* get_smbus_params: first entry of the bus's list with the address, else  *)
(* the defaults.                                                           *)
(* The result is a pointer: 0 stands for &default_smbus_params, k > 0 for    *)
(* the k-th entry of the list.                                             *)
RECURSIVE get_smbus_params_from(_, _, _)
get_smbus_params_from(list, k, addr) ==
    IF k > Len(list) THEN 0
    ELSE IF list[k].addr = addr THEN k
    ELSE get_smbus_params_from(list, k + 1, addr)

get_smbus_params_ignores_addr(list, addr) == IF Len(list) > 0 THEN 1 ELSE 0

get_smbus_params(list, addr) == get_smbus_params_from(list, 1, addr)

(* *params: the fields behind a pointer returned by get_smbus_params.       *)
ParamsAt(list, k) == IF k = 0 THEN default_smbus_params ELSE list[k]

(* data->block[idx] of a buffer of Len(data) bytes (block[0] is data[1]).  *)
(* data->byte is block[0]; data->word is block[0] | block[1] << 8.         *)
Block(data, idx) == data[idx + 1]

InBuf(data, idx) == idx >= 0 /\ idx < Len(data)

(* The switch (size) of scd_smbus_do_impl: the phase count ss, and the     *)
(* offset of the first data byte.  BLOCK_DATA reads are handled by the     *)
(* caller (hardware-assisted path, or length probe then blockLen + 4).     *)
(* A size with no case leaves ss = 0.                                      *)
PhaseCount_block_as_i2c_block(size, read_write, data, data_size) ==
    CASE size = "QUICK" -> 1
      [] size = "BYTE" -> 2
      [] size = "BYTE_DATA" -> IF read_write = I2C_SMBUS_WRITE THEN 3 ELSE 4
      [] size = "WORD_DATA" -> IF read_write = I2C_SMBUS_WRITE THEN 4 ELSE 5
      [] size = "I2C_BLOCK_DATA_MSG" ->
            IF read_write = I2C_SMBUS_WRITE THEN 2 + data_size ELSE 3 + data_size
      [] size \in {"I2C_BLOCK_DATA", "BLOCK_DATA"} ->
            IF read_write = I2C_SMBUS_WRITE THEN 2 + Block(data, 0)
            ELSE 3 + Block(data, 0)
      [] OTHER -> 0

PhaseCount(size, read_write, data, data_size) ==
    CASE size = "QUICK" -> 1
      [] size = "BYTE" -> 2
      [] size = "BYTE_DATA" -> IF read_write = I2C_SMBUS_WRITE THEN 3 ELSE 4
      [] size = "WORD_DATA" -> IF read_write = I2C_SMBUS_WRITE THEN 4 ELSE 5
      [] size = "I2C_BLOCK_DATA_MSG" ->
            IF read_write = I2C_SMBUS_WRITE THEN 2 + data_size ELSE 3 + data_size
      [] size = "I2C_BLOCK_DATA" ->
            IF read_write = I2C_SMBUS_WRITE THEN 2 + Block(data, 0)
            ELSE 3 + Block(data, 0)
      [] size = "BLOCK_DATA" ->
            IF read_write = I2C_SMBUS_WRITE THEN 3 + Block(data, 0)
            ELSE 4 + Block(data, 0)
      [] OTHER -> 0

DataOffset(size) == IF size = "I2C_BLOCK_DATA" THEN 1 ELSE 0

(* The request register before the phase loop of scd_smbus_do_impl.        *)
FirstReq(busid, params, ss, addr, read_write) ==
    [smbus_request_reg EXCEPT
        !.bs = Trunc(busid, 4),
        !.t = Trunc(params.t, 2),
        !.st = 1,
        !.ss = Trunc(ss, 6),
        !.d = AddrByte(addr, IF ss <= 2 THEN read_write ELSE 0),
        !.dod = 1]

PhaseReq_restart_any_direction(req, i, ss, read_write, command, addr, params, byte) ==
    LET r1 == IF i = ss - 1
              THEN [req EXCEPT !.sp = 1,
                               !.ed = Trunc(params.ed, 1),
                               !.dat = Trunc(IF read_write = I2C_SMBUS_WRITE
                                             THEN params.datw ELSE params.datr, 2)]
              ELSE req
        r2 == IF i = 1
              THEN [r1 EXCEPT !.st = 0, !.ss = 0, !.d = command,
                              !.dod = IF ss = 2
                                      THEN (IF read_write = I2C_SMBUS_WRITE THEN 1 ELSE 0)
                                      ELSE 1]
              ELSE r1
        r3 == IF i = 2
              THEN [r2 EXCEPT !.st = 1,
                              !.d = IF read_write = I2C_SMBUS_READ
                                    THEN AddrByte(addr, 1) ELSE byte]
              ELSE r2
        r4 == IF i >= 2 /\ read_write = I2C_SMBUS_WRITE
              THEN [r3 EXCEPT !.d = byte]
              ELSE r3
        r5 == IF i = 3 /\ read_write = I2C_SMBUS_READ
              THEN [r4 EXCEPT !.dod = 0]
              ELSE r4
    IN  [r5 EXCEPT !.da = Bool2Int(~(r5.dod # 0 \/ r5.sp # 0))]

(* One iteration of the phase loop of scd_smbus_do_impl: the register      *)
(* value written for phase i.  byte is data->block[data_offset + i - 2].   *)
PhaseReq(req, i, ss, read_write, command, addr, params, byte) ==
    LET r1 == IF i = ss - 1
              THEN [req EXCEPT !.sp = 1,
                               !.ed = Trunc(params.ed, 1),
                               !.dat = Trunc(IF read_write = I2C_SMBUS_WRITE
                                             THEN params.datw ELSE params.datr, 2)]
              ELSE req
        r2 == IF i = 1
              THEN [r1 EXCEPT !.st = 0, !.ss = 0, !.d = command,
                              !.dod = IF ss = 2
                                      THEN (IF read_write = I2C_SMBUS_WRITE THEN 1 ELSE 0)
                                      ELSE 1]
              ELSE r1
        r3 == IF i = 2 /\ read_write = I2C_SMBUS_READ
              THEN [r2 EXCEPT !.st = 1, !.d = AddrByte(addr, 1)]
              ELSE r2
        r4 == IF i >= 2 /\ read_write = I2C_SMBUS_WRITE
              THEN [r3 EXCEPT !.d = byte]
              ELSE r3
        r5 == IF i = 3 /\ read_write = I2C_SMBUS_READ
              THEN [r4 EXCEPT !.dod = 0]
              ELSE r4
    IN  [r5 EXCEPT !.da = Bool2Int(~(r5.dod # 0 \/ r5.sp # 0))]

NextReq_no_increment(req) == [req EXCEPT !.st = 0]

(* After the write: req.ti++ (4 bits) and req.st = 0.                      *)
NextReq(req) == [req EXCEPT !.ti = Trunc(req.ti + 1, 4), !.st = 0]

(* The request loop of scd_smbus_block_read (3 phases).                    *)
BlockReadFirstReq(busid, params, addr) ==
    [smbus_request_reg EXCEPT
        !.bs = Trunc(busid, 4),
        !.t = Trunc(params.t, 2),
        !.st = 1,
        !.ss = 3,
        !.d = AddrByte(addr, 0),
        !.dod = 1]

BlockReadPhaseReq_da_from_ed(req, i, command, addr) ==
    LET r1 == IF i = 1 THEN [req EXCEPT !.st = 0, !.ss = 0, !.d = command] ELSE req
        r2 == IF i = 2 THEN [r1 EXCEPT !.br = 1, !.st = 1, !.d = AddrByte(addr, 1)] ELSE r1
    IN  [r2 EXCEPT !.da = Bool2Int(~(r2.ed # 0 \/ r2.sp # 0))]

BlockReadPhaseReq(req, i, command, addr) ==
    LET r1 == IF i = 1 THEN [req EXCEPT !.st = 0, !.ss = 0, !.d = command] ELSE req
        r2 == IF i = 2 THEN [r1 EXCEPT !.br = 1, !.st = 1, !.d = AddrByte(addr, 1)] ELSE r1
    IN  [r2 EXCEPT !.da = Bool2Int(~(r2.dod # 0 \/ r2.sp # 0))]

BlockReadTimeout_two_bit_class(t) ==
    CASE t % 4 = 0 -> 5 [] t % 4 = 1 -> 35 + 5 [] t % 4 = 2 -> 500 + 5
      [] t % 4 = 3 -> 1000 + 5

(* The busy-wait budget of scd_smbus_block_read, in steps.                 *)
BlockReadTimeout(t) ==
    IF t > 3 THEN 100
    ELSE CASE t = 0 -> 5 [] t = 1 -> 35 + 5 [] t = 2 -> 500 + 5 [] t = 3 -> 1000 + 5

(* while (cs.brb && ct < t) { msleep; ct += STEP; cs = read }: ct after    *)
(* the loop when the busy bit reads set busy times in a row.  The loop     *)
(* body runs once per busy read while ct < t, hence                        *)
(* min(busy, ceil((t - ct) / STEP)) times.                                 *)
BlockReadWait(busy, ct, t) ==
    LET room == IF t > ct
                THEN ((t - ct) + SMBUS_BLOCK_READ_TIMEOUT_STEP - 1)
                         \div SMBUS_BLOCK_READ_TIMEOUT_STEP
                ELSE 0
        runs == IF busy < room THEN busy ELSE room
    IN  ct + runs * SMBUS_BLOCK_READ_TIMEOUT_STEP

(* cs.brb as last read by that loop: the loop body ran runs times, so the  *)
(* control/status register was read runs + 1 times; the last read has the  *)
(* bit set when more than runs reads in a row have it set.                 *)
BlockReadBusyAtExit(busy, ct, t) ==
    LET runs == (BlockReadWait(busy, ct, t) - ct) \div SMBUS_BLOCK_READ_TIMEOUT_STEP
    IN  busy > runs

(* smbus_master_read_resp: the fifo check loop, when the fifo-size field   *)
(* reads zero empty times in a row.  reads: control/status reads made;     *)
(* empty: the fifo was still empty when the response register is read.    *)
RECURSIVE FifoPoll(_, _, _)
FifoPoll(empty, retries, reads) ==
    IF empty > 0 /\ retries - 1 # 0
    THEN FifoPoll(empty - 1, retries - 1, reads + 1)
    ELSE [reads |-> reads, empty |-> empty > 0]

smbus_master_read_resp_poll_until_filled(empty) ==
    [reads |-> empty + 1, empty |-> FALSE]

smbus_master_read_resp_poll(empty) == FifoPoll(empty, FIFO_RETRIES, 1)

(* ---------------------------------------------------------------------- *)
(* Masters, buses, register offsets                                        *)
(* ---------------------------------------------------------------------- *)
MasterIds == DOMAIN smaster

(* scd_smbus_master_add: master->req, master->cs, master->resp.            *)
ReqOffset(m) == smaster[m].addr + SMBUS_REQUEST_OFFSET

CsOffset(m) == smaster[m].addr + SMBUS_CONTROL_STATUS_OFFSET

RespOffset(m) == smaster[m].addr + SMBUS_RESPONSE_OFFSET

MasterOffsets(m) == {ReqOffset(m), CsOffset(m), RespOffset(m)}

Threads == DOMAIN th

MasterOf(t) == th[t].bus[1]

BusIdOf(t) == th[t].bus[2]

LockOf_one_global_mutex(t) == 0

(* The mutex a transaction of thread t takes: bus->master->mutex.          *)
LockOf(t) == MasterOf(t)

EffSize(r) == IF r.inner THEN "BYTE_DATA" ELSE r.size

EffRW(r) == IF r.inner THEN I2C_SMBUS_READ ELSE r.read_write

RECURSIVE BitOr(_, _)
BitOr(a, b) ==
    IF a = 0 THEN b
    ELSE IF b = 0 THEN a
    ELSE (IF a % 2 = 1 \/ b % 2 = 1 THEN 1 ELSE 0) + 2 * BitOr(a \div 2, b \div 2)

(* A store to data->block[idx]: a store past the caller's buffer is        *)
(* recorded in oob.                                                        *)
StoreByte(r, idx, v) ==
    IF InBuf(r.data, idx) THEN [r EXCEPT !.data[idx + 1] = v]
    ELSE [r EXCEPT !.oob = TRUE]

(* ---------------------------------------------------------------------- *)
(* The hardware: what a read of the response register may return for the  *)
(* response at position pos of an exchange, the hardware's own id being    *)
(* pos modulo 16.                                                          *)
(* ---------------------------------------------------------------------- *)
Pat(pos) == 160 + (pos % 64)

GoodResp(pos, d) == [smbus_response_reg EXCEPT !.ti = pos % 16, !.d = d]

FaultResp(pos, f) ==
    LET g == GoodResp(pos, Pat(pos)) IN
    CASE f = "fe" -> [g EXCEPT !.fe = 1]
      [] f = "ack" -> [g EXCEPT !.ack_error = 1]
      [] f = "timeout" -> [g EXCEPT !.timeout_error = 1]
      [] f = "conflict" -> [g EXCEPT !.bus_conflict_error = 1]
      [] f = "flush" -> [g EXCEPT !.flushed = 1]
      [] f = "tid" -> [g EXCEPT !.ti = (pos + 1) % 16]
      [] f = "overflow" -> [g EXCEPT !.foe = 1]
      [] f = "tid+overflow" -> [g EXCEPT !.ti = (pos + 15) % 16, !.foe = 1]
      [] f = "ack+tid" -> [g EXCEPT !.ack_error = 1, !.ti = (pos + 1) % 16]

(* A target that acknowledges every phase and stores what is written per   *)
(* <<address, command>>.  cur holds the phases of the exchange in progress  *)
(* (phase 0 is the one with a length in ss); a complete write of three or   *)
(* more phases stores the bytes of phases 2.. under the address of phase 0  *)
(* and the command of phase 1.                                             *)
NoTarget == [on |-> FALSE]

(* No MDIO master was added.                                               *)
NoMdio == [on |-> FALSE]

(* No device probed: get_context_for_pdev finds no context.               *)
NoCtx == [on |-> FALSE, log |-> <<>>]

TargetKey(cur) == <<cur[1].d \div 2, cur[2].d>>

TargetIsRead(cur) == Len(cur) >= 3 /\ cur[3].st = 1

TargetWrite(tg, q) ==
    IF ~tg.on THEN tg
    ELSE LET cur == IF q.ss # 0 THEN <<q>> ELSE Append(tg.cur, q)
             done == Len(cur) = cur[1].ss
         IN
         IF done /\ Len(cur) >= 3 /\ ~TargetIsRead(cur) /\ TargetKey(cur) \in DOMAIN tg.store
         THEN [tg EXCEPT !.cur = cur,
                         !.store[TargetKey(cur)] = [k \in 1..(Len(cur) - 2) |-> cur[k + 2].d]]
         ELSE [tg EXCEPT !.cur = cur]

(* The response to phase pos: the id of that phase and, from phase 3 of a  *)
(* read on, the stored bytes in order (255 past their end).                *)
TargetResp(tg, pos) ==
    LET cur == tg.cur
        bytes == IF Len(cur) >= 2 /\ TargetKey(cur) \in DOMAIN tg.store
                 THEN tg.store[TargetKey(cur)] ELSE <<>>
        d == IF TargetIsRead(cur) /\ pos >= 3
             THEN (IF pos - 2 <= Len(bytes) THEN bytes[pos - 2] ELSE 255)
             ELSE 0
    IN
    [smbus_response_reg EXCEPT !.ti = cur[pos + 1].ti, !.d = d]

Responses(pos) ==
    IF tgt.on THEN {TargetResp(tgt, pos)}
    ELSE { GoodResp(pos, d) : d \in (IF pos = 3 THEN env.lens ELSE {Pat(pos)}) }
         \cup { FaultResp(pos, f) : f \in env.faults }

(* The caller's buffer: block[0] is the length byte of the block shapes.   *)
CallerData(size, read_write, block0, data_size) ==
    [k \in 1..data_size |->
        IF k = 1 /\ size \in {"I2C_BLOCK_DATA", "BLOCK_DATA"} THEN block0
        ELSE IF read_write = I2C_SMBUS_WRITE THEN 16 + (k % 64) ELSE 0]

NewThread(bus, size, read_write, addr, command, block0, data_size) ==
    [pc |-> "call", bus |-> bus, size |-> size, read_write |-> read_write,
     addr |-> addr, command |-> command, data_size |-> data_size,
     data |-> CallerData(size, read_write, block0, data_size),
     oob |-> FALSE, inner |-> FALSE, path |-> "none",
     params |-> 0, pseen |-> <<>>,
     ss |-> 0, i |-> 0, req |-> smbus_request_reg, resp |-> smbus_response_reg,
     ret |-> 0, retry |-> 0, reason |-> "",
     attempts |-> 0, nreq |-> 0, nprobe |-> 0, nresp |-> 0, stamped |-> <<>>,
     aborted |-> FALSE, polls |-> 0, brb |-> FALSE, fifo_empty |-> FALSE, resets |-> 0,
     blen |-> -1]

(* ---------------------------------------------------------------------- *)
(* Actions.  Set(t, r) replaces thread t's locals by r.                     *)
(* ---------------------------------------------------------------------- *)
Set(t, r) == th' = [th EXCEPT ![t] = r]

(* scd_smbus_access_impl, entry: retry = 0, then the do-while loop.        *)
scd_smbus_access_impl(t) ==
    /\ th[t].pc = "call"
    /\ Set(t, [th[t] EXCEPT !.pc = "lock", !.retry = 0])
    /\ UNCHANGED <<mutex, mem, dirty, smaster, bparams, env, rest>>

(* scd_smbus_do: smbus_master_lock(master).                                *)
CanLock_free_during_reset(t) ==
    IF mutex[LockOf(t)] = 0 THEN TRUE
    ELSE th[mutex[LockOf(t)]].pc \in {"reset1", "reset2"}

CanLock_never_blocks(t) == TRUE

CanLock(t) == mutex[LockOf(t)] = 0

smbus_master_lock(t) ==
    /\ th[t].pc = "lock"
    /\ CanLock(t)
    /\ mutex' = [mutex EXCEPT ![LockOf(t)] = t]
    /\ Set(t, [th[t] EXCEPT !.pc = "impl", !.attempts = @ + 1, !.nreq = 0,
                            !.nprobe = 0, !.nresp = 0, !.stamped = <<>>,
                            !.aborted = FALSE, !.path = "none", !.resets = 0,
                            !.reason = "", !.blen = -1, !.inner = FALSE])
    /\ UNCHANGED <<mem, dirty, smaster, bparams, env, rest>>

(* scd_smbus_do_impl up to the phase loop: parameter lookup, switch(size). *)
(* A BLOCK_DATA read goes to scd_smbus_block_read when the master supports *)
(* it, else first runs a nested BYTE_DATA read (the length probe).         *)
StartPhases(r, m, b, ss) ==
    [r EXCEPT !.ss = ss, !.i = 0,
              !.req = FirstReq(b, ParamsAt(bparams[r.bus], r.params), ss, r.addr, EffRW(r)),
              !.nreq = 0, !.nresp = 0, !.stamped = <<>>,
              !.pc = IF ss = 0 THEN "unlock" ELSE "req",
              !.ret = 0]

UseBlockRead_always(m) == TRUE

(* if (master->br_supported) in the BLOCK_DATA read case.                  *)
UseBlockRead(m) == smaster[m].br_supported

scd_smbus_do_impl(t) ==
    LET r0 == th[t]
        m == MasterOf(t)
        b == BusIdOf(t)
        r == [r0 EXCEPT !.params = get_smbus_params(bparams[r0.bus], r0.addr),
                        !.pseen = bparams[r0.bus]]
    IN
    /\ r0.pc = "impl"
    /\ IF r.size = "BLOCK_DATA" /\ r.read_write # I2C_SMBUS_WRITE
       THEN IF UseBlockRead(m)
            THEN Set(t, [r EXCEPT !.pc = "br_req", !.path = "br", !.ss = 3, !.i = 0,
                                  !.req = BlockReadFirstReq(b, ParamsAt(bparams[r.bus], r.params),
                                                          r.addr)])
            ELSE Set(t, StartPhases([r EXCEPT !.inner = TRUE, !.path = "impl"], m, b, 4))
       ELSE Set(t, StartPhases([r EXCEPT !.path = "impl"], m, b,
                               PhaseCount(r.size, r.read_write, r.data, r.data_size)))
    /\ UNCHANGED <<mutex, mem, dirty, smaster, bparams, env, rest>>

(* One iteration of the phase loop: smbus_master_write_req, req.ti++.      *)
(* A read of data->block past the caller's buffer yields any byte.         *)
OutByteChoices(r) ==
    LET idx == DataOffset(EffSize(r)) + r.i - 2 IN
    IF r.i >= 2 /\ EffRW(r) = I2C_SMBUS_WRITE
    THEN (IF InBuf(r.data, idx) THEN {Block(r.data, idx)} ELSE {0, 255})
    ELSE {0}

smbus_master_write_req(t) ==
    LET r == th[t]
        m == MasterOf(t)
    IN
    /\ r.pc = "req"
    /\ \E byte \in OutByteChoices(r) :
         LET q == PhaseReq(r.req, r.i, r.ss, EffRW(r), r.command, r.addr,
                           ParamsAt(bparams[r.bus], r.params), byte)
             last == r.i + 1 >= r.ss
         IN
         /\ mem' = [mem EXCEPT ![ReqOffset(m)] = q]
         /\ tgt' = TargetWrite(tgt, q)
         /\ Set(t, [r EXCEPT !.req = IF last THEN [NextReq(q) EXCEPT !.ti = 0]
                                     ELSE NextReq(q),
                             !.i = IF last THEN 0 ELSE r.i + 1,
                             !.nreq = @ + 1,
                             !.nprobe = IF r.inner THEN @ + 1 ELSE @,
                             !.stamped = Append(@, q.ti),
                             !.pc = IF last THEN "resp" ELSE "req"])
    /\ UNCHANGED <<mutex, dirty, smaster, bparams, env, cr, md, ctx>>

TooBig_off_by_one(idx, data_size) == idx > data_size

(* The capacity checks of the read paths: index idx does not fit a buffer  *)
(* of data_size bytes.                                                     *)
TooBig(idx, data_size) == idx >= data_size

FailPc_block_read_skips_reset(r) == IF r.path = "br" THEN "unlock" ELSE "reset1"

(* Where a failed attempt goes: the fail label of scd_smbus_do_impl, which *)
(* resets the master before returning.                                     *)
FailPc(r) == "reset1"

(* The routing of a validated response's data byte in scd_smbus_do_impl.   *)
(* Returns the new locals, with ret = -EINVAL when the buffer is short.    *)
RouteData(r, resp) ==
    LET size == EffSize(r)
        i == r.i
    IN
    IF EffRW(r) # I2C_SMBUS_READ THEN r
    ELSE IF size \in {"BYTE", "BYTE_DATA"}
    THEN (IF i = r.ss - 1 THEN StoreByte(r, 0, resp.d) ELSE r)
    ELSE IF size = "WORD_DATA"
    THEN (IF i = r.ss - 2 THEN StoreByte(StoreByte(r, 0, resp.d), 1, 0)
          ELSE IF i = r.ss - 1 THEN StoreByte(r, 1, BitOr(Block(r.data, 1), resp.d))
          ELSE r)
    ELSE IF i >= 3
    THEN (IF size = "I2C_BLOCK_DATA"
          THEN (IF TooBig(i - 2, r.data_size)
                THEN [r EXCEPT !.ret = -EINVAL, !.reason = "buffer too short"]
                ELSE StoreByte(r, i - 2, resp.d))
          ELSE (IF TooBig(i - 3, r.data_size)
                THEN [r EXCEPT !.ret = -EINVAL, !.reason = "buffer too short"]
                ELSE StoreByte(r, i - 3, resp.d)))
    ELSE r

AfterProbe_three_plus_len(r, m, b) ==
    [StartPhases([r EXCEPT !.inner = FALSE, !.blen = Block(r.data, 0)], m, b,
                 3 + Block(r.data, 0))
       EXCEPT !.req.t = r.req.t]

(* The end of a nested (probe) call that returned 0: the outer call goes   *)
(* on with ss = 4 + data->block[0].                                        *)
AfterProbe(r, m, b) ==
    [StartPhases([r EXCEPT !.inner = FALSE, !.blen = Block(r.data, 0)], m, b,
                 4 + Block(r.data, 0))
       EXCEPT !.req.t = r.req.t]

(* One iteration of the response loop: smbus_master_read_resp (fifo check  *)
(* loop, then the read), smbus_check_resp, data routing.                   *)
smbus_master_read_resp(t) ==
    LET r == th[t]
        m == MasterOf(t)
        b == BusIdOf(t)
    IN
    /\ r.pc = "resp"
    /\ \E empty \in env.empties, resp \in Responses(r.i) :
         LET poll == smbus_master_read_resp_poll(empty)
             chk == smbus_check_resp(resp, r.req.ti)
             r1 == [r EXCEPT !.resp = resp, !.polls = poll.reads,
                            !.fifo_empty = poll.empty, !.nresp = @ + 1]
         IN
         IF chk.ret # 0
         THEN /\ Set(t, [r1 EXCEPT !.ret = chk.ret,
                                   !.reason = chk.error,
                                   !.aborted = TRUE, !.pc = FailPc(r)])
              /\ dirty' = [dirty EXCEPT ![m] = TRUE]
         ELSE LET r2 == RouteData([r1 EXCEPT !.req.ti = Trunc(@ + 1, 4)], resp)
                  last == r.i + 1 >= r.ss
              IN
              /\ dirty' = dirty
              /\ IF r2.ret # 0
                 THEN Set(t, [r2 EXCEPT !.aborted = TRUE, !.pc = FailPc(r)])
                 ELSE IF ~last
                 THEN Set(t, [r2 EXCEPT !.i = r.i + 1])
                 ELSE IF r.inner
                 THEN Set(t, AfterProbe(r2, m, b))
                 ELSE Set(t, [r2 EXCEPT !.pc = "unlock", !.ret = 0])
    /\ UNCHANGED <<mutex, mem, smaster, bparams, env, rest>>

(* smbus_master_reset, first half: cs = read; cs.reset = 1; cs.foe = 1;    *)
(* write; mdelay(50).                                                      *)
CsRead(m) == [smbus_ctrl_status_reg EXCEPT !.ver = smaster[m].ver]

smbus_master_reset_set(t) ==
    LET r == th[t]
        m == MasterOf(t)
    IN
    /\ r.pc = "reset1"
    /\ mem' = [mem EXCEPT ![CsOffset(m)] = [CsRead(m) EXCEPT !.reset = 1, !.foe = 1]]
    /\ Set(t, [r EXCEPT !.pc = "reset2"])
    /\ UNCHANGED <<mutex, dirty, smaster, bparams, env, rest>>

(* smbus_master_reset, second half: cs.reset = 0; write; mdelay(50); then  *)
(* the return of scd_smbus_do_impl.  A failed nested call makes the outer  *)
(* call take its own fail path (a second reset).                           *)
smbus_master_reset_clear(t) ==
    LET r == th[t]
        m == MasterOf(t)
        cs == mem[CsOffset(m)]
    IN
    /\ r.pc = "reset2"
    /\ mem' = [mem EXCEPT ![CsOffset(m)] = [cs EXCEPT !.reset = 0]]
    /\ dirty' = [dirty EXCEPT ![m] = IF cs.reset = 1 /\ cs.foe = 1 THEN FALSE ELSE @]
    /\ Set(t, [r EXCEPT !.resets = @ + 1,
                        !.inner = FALSE,
                        !.pc = IF r.inner THEN "reset1" ELSE "unlock"])
    /\ UNCHANGED <<mutex, smaster, bparams, env, rest>>

(* scd_smbus_block_read: one iteration of its request loop.                *)
block_read_write_req(t) ==
    LET r == th[t]
        m == MasterOf(t)
        q == BlockReadPhaseReq(r.req, r.i, r.command, r.addr)
        last == r.i + 1 >= r.ss
    IN
    /\ r.pc = "br_req"
    /\ mem' = [mem EXCEPT ![ReqOffset(m)] = q]
    /\ Set(t, [r EXCEPT !.req = [q EXCEPT !.ti = Trunc(q.ti + 1, 4)],
                        !.i = IF last THEN 0 ELSE r.i + 1,
                        !.nreq = @ + 1,
                        !.stamped = Append(@, q.ti),
                        !.pc = IF last THEN "br_wait" ELSE "br_req"])
    /\ UNCHANGED <<mutex, dirty, smaster, bparams, env, rest>>

(* How many times in a row the busy bit reads set, by kind of hardware     *)
(* behaviour, for a budget of tmo steps.                                   *)
BusyReads(kind, tmo) ==
    CASE kind = "idle" -> 0
      [] kind = "short" -> 1
      [] kind = "almost" -> tmo - 1
      [] kind = "exact" -> tmo
      [] kind = "stuck" -> tmo + 1

(* scd_smbus_block_read: ++ss, the busy-bit wait, the timeout return.      *)
(* A nonzero return makes scd_smbus_do_impl take its fail path.            *)
block_read_wait(t) ==
    LET r == th[t]
        tmo == BlockReadTimeout(ParamsAt(bparams[r.bus], r.params).t)
    IN
    /\ r.pc = "br_wait"
    /\ \E kind \in env.busies :
         LET ct == BlockReadWait(BusyReads(kind, tmo), 0, tmo)
             brb == BlockReadBusyAtExit(BusyReads(kind, tmo), 0, tmo) IN
         IF ct = tmo
         THEN Set(t, [r EXCEPT !.ret = -EINVAL, !.reason = "block read failed",
                               !.aborted = TRUE, !.polls = ct, !.brb = brb,
                               !.pc = FailPc(r)])
         ELSE Set(t, [r EXCEPT !.ss = r.ss + 1, !.i = 0, !.req.ti = 0,
                               !.polls = ct, !.brb = brb, !.pc = "br_resp"])
    /\ UNCHANGED <<mutex, mem, dirty, smaster, bparams, env, rest>>

BlockReadCount_length_included(ss, i, d) == IF i = 3 THEN ss + d - 1 ELSE ss

(* scd_smbus_block_read: if (i == 3) ss += resp.d.                         *)
BlockReadCount(ss, i, d) == IF i = 3 THEN ss + d ELSE ss

(* scd_smbus_block_read: one iteration of its response loop.               *)
block_read_resp(t) ==
    LET r == th[t]
        m == MasterOf(t)
    IN
    /\ r.pc = "br_resp"
    /\ \E empty \in env.empties, resp \in Responses(r.i) :
         LET poll == smbus_master_read_resp_poll(empty)
             chk == smbus_check_resp(resp, r.req.ti)
             r1 == [r EXCEPT !.resp = resp, !.polls = poll.reads,
                            !.fifo_empty = poll.empty, !.nresp = @ + 1]
         IN
         IF chk.ret # 0
         THEN /\ Set(t, [r1 EXCEPT !.ret = chk.ret, !.reason = "block read failed",
                                   !.aborted = TRUE, !.pc = FailPc(r)])
              /\ dirty' = [dirty EXCEPT ![m] = TRUE]
         ELSE LET ss == BlockReadCount(r.ss, r.i, resp.d)
                  r2 == [r1 EXCEPT !.req.ti = Trunc(@ + 1, 4), !.ss = ss,
                                   !.blen = IF r.i = 3 THEN resp.d ELSE @]
                  last == r.i + 1 >= ss
              IN
              /\ dirty' = dirty
              /\ IF r.i >= 3 /\ TooBig(r.i - 3, r.data_size)
                 THEN Set(t, [r2 EXCEPT !.ret = -EINVAL, !.reason = "block read failed",
                                        !.aborted = TRUE, !.pc = FailPc(r)])
                 ELSE LET r3 == IF r.i >= 3 THEN StoreByte(r2, r.i - 3, resp.d) ELSE r2 IN
                      IF last THEN Set(t, [r3 EXCEPT !.pc = "unlock", !.ret = 0])
                      ELSE Set(t, [r3 EXCEPT !.i = r.i + 1])
    /\ UNCHANGED <<mutex, mem, smaster, bparams, env, rest>>

(* scd_smbus_do: smbus_master_unlock, then the loop of                      *)
(* scd_smbus_access_impl: return unless -EIO; retry++; again while         *)
(* retry < master->max_retries; else return -EIO.                          *)
AccessLoop_retry_any_error(r, max_retries) ==
    IF r.ret = 0 THEN [r EXCEPT !.pc = "done"]
    ELSE IF r.retry + 1 < max_retries
    THEN [r EXCEPT !.retry = @ + 1, !.pc = "lock"]
    ELSE [r EXCEPT !.retry = @ + 1, !.pc = "done", !.ret = -EIO]

AccessLoop_retries_after_first(r, max_retries) ==
    IF r.ret # -EIO THEN [r EXCEPT !.pc = "done"]
    ELSE IF r.retry < max_retries
    THEN [r EXCEPT !.retry = @ + 1, !.pc = "lock"]
    ELSE [r EXCEPT !.retry = @ + 1, !.pc = "done", !.ret = -EIO]

AccessLoop_retry_keeps_lock(r, max_retries) ==
    IF r.ret # -EIO THEN [r EXCEPT !.pc = "done"]
    ELSE IF r.retry + 1 < max_retries
    THEN [r EXCEPT !.retry = @ + 1, !.pc = "impl"]
    ELSE [r EXCEPT !.retry = @ + 1, !.pc = "done", !.ret = -EIO]

AccessLoop(r, max_retries) ==
    IF r.ret # -EIO THEN [r EXCEPT !.pc = "done"]
    ELSE IF r.retry + 1 < max_retries
    THEN [r EXCEPT !.retry = @ + 1, !.pc = "lock"]
    ELSE [r EXCEPT !.retry = @ + 1, !.pc = "done", !.ret = -EIO]

(* The locals of scd_smbus_do_impl are dead once it has returned.          *)
Returned(r) ==
    [r EXCEPT !.ss = 0, !.i = 0, !.req = smbus_request_reg,
              !.resp = smbus_response_reg, !.polls = 0, !.brb = FALSE,
              !.fifo_empty = FALSE,
              !.params = 0, !.pseen = <<>>, !.stamped = <<>>]

smbus_master_unlock(t) ==
    LET r == th[t]
        m == MasterOf(t)
    IN
    /\ r.pc = "unlock"
    /\ mutex' = [mutex EXCEPT ![LockOf(t)] = 0]
    /\ Set(t, AccessLoop(Returned(r), smaster[m].max_retries))
    /\ UNCHANGED <<mem, dirty, smaster, bparams, env, rest>>

Next ==
    \/ \E t \in Threads : scd_smbus_access_impl(t)
    \/ \E t \in Threads : smbus_master_lock(t)
    \/ \E t \in Threads : scd_smbus_do_impl(t)
    \/ \E t \in Threads : smbus_master_write_req(t)
    \/ \E t \in Threads : smbus_master_read_resp(t)
    \/ \E t \in Threads : block_read_write_req(t)
    \/ \E t \in Threads : block_read_wait(t)
    \/ \E t \in Threads : block_read_resp(t)
    \/ \E t \in Threads : smbus_master_reset_set(t)
    \/ \E t \in Threads : smbus_master_reset_clear(t)
    \/ \E t \in Threads : smbus_master_unlock(t)

(* ---------------------------------------------------------------------- *)
(* Specification of the engine: one thread, one master, every transfer     *)
(* shape, direction and length class, every fault kind.                    *)
(* ---------------------------------------------------------------------- *)
MaxRetries == 2
MidLen == 14
LongLen == 34
MsgLen == 2

Sizes == {"QUICK", "BYTE", "BYTE_DATA", "WORD_DATA", "I2C_BLOCK_DATA_MSG",
          "I2C_BLOCK_DATA", "BLOCK_DATA", "PROC_CALL"}

BlockLens == {0, 1, MidLen, LongLen}

(* The calls scd_smbus_access (data_size 34) and scd_smbus_master_xfer     *)
(* (I2C_BLOCK_DATA_MSG, data_size = message length) can make.              *)
Calls(bus, addrs, lens, msglens) ==
    { NewThread(bus, size, rw, addr, 7, b0, SMBUS_ACCESS_DATA_SIZE) :
        size \in Sizes \ {"I2C_BLOCK_DATA_MSG", "I2C_BLOCK_DATA", "BLOCK_DATA"},
        rw \in {I2C_SMBUS_WRITE, I2C_SMBUS_READ}, addr \in addrs, b0 \in {0} }
    \cup
    { NewThread(bus, size, rw, addr, 7, b0, SMBUS_ACCESS_DATA_SIZE) :
        size \in {"I2C_BLOCK_DATA", "BLOCK_DATA"},
        rw \in {I2C_SMBUS_WRITE, I2C_SMBUS_READ}, addr \in addrs, b0 \in lens }
    \cup
    { NewThread(bus, "I2C_BLOCK_DATA_MSG", rw, addr, 7, 0, n) :
        rw \in {I2C_SMBUS_WRITE, I2C_SMBUS_READ}, addr \in addrs, n \in msglens }

Master(addr, ver, max_retries) ==
    [addr |-> addr, ver |-> ver, br_supported |-> (ver >= 2), max_retries |-> max_retries]

ZeroMem(ms) ==
    [o \in UNION { {ms[m].addr + SMBUS_REQUEST_OFFSET,
                    ms[m].addr + SMBUS_CONTROL_STATUS_OFFSET} : m \in DOMAIN ms } |->
        IF \E m \in DOMAIN ms : o = ms[m].addr + SMBUS_REQUEST_OFFSET
        THEN smbus_request_reg ELSE smbus_ctrl_status_reg]

Override == [addr |-> 80, t |-> 2, datw |-> 1, datr |-> 2, ed |-> 1]

(* The runs of the engine specification: every call on a master without   *)
(* hardware block read, with default parameters and (without retries)      *)
(* with an override; BLOCK_DATA reads also on a master with hardware block *)
(* read, with and without an override.                                     *)
EngineConfigs ==
    { [ver |-> 1, ov |-> FALSE, mr |-> mr, call |-> c] :
        mr \in 0..MaxRetries, c \in Calls(<<0, 0>>, {80}, BlockLens, {0, MsgLen}) }
    \cup
    { [ver |-> 1, ov |-> TRUE, mr |-> 0, call |-> c] :
        c \in Calls(<<0, 0>>, {80}, BlockLens, {0, MsgLen}) }
    \cup
    { [ver |-> 2, ov |-> ov, mr |-> mr, call |-> c] :
        ov \in BOOLEAN, mr \in 0..MaxRetries,
        c \in { x \in Calls(<<0, 0>>, {80}, {1}, {}) :
                  x.size = "BLOCK_DATA" /\ x.read_write = I2C_SMBUS_READ } }

EngineFaults == {"ack", "tid", "tid+overflow"}

Init ==
    \E c \in EngineConfigs :
        /\ smaster = (0 :> Master(32768, c.ver, c.mr))
        /\ mutex = (0 :> 0)
        /\ dirty = (0 :> FALSE)
        /\ mem = ZeroMem(0 :> Master(32768, c.ver, c.mr))
        /\ bparams = (<<0, 0>> :> IF c.ov THEN <<Override>> ELSE <<>>)
        /\ th = (1 :> c.call)
        /\ cr = [state |-> "unused"]
        /\ tgt = NoTarget
        /\ md = NoMdio
        /\ ctx = NoCtx
        /\ env = [faults |-> EngineFaults, lens |-> BlockLens, empties |-> {0},
                  busies |-> {"idle", "almost", "exact", "stuck"}]

Spec == Init /\ [][Next]_vars

(* ---------------------------------------------------------------------- *)
(* Specification of the two polling loops: one thread; a BLOCK_DATA read   *)
(* on a master with hardware block read under every timing class, and      *)
(* byte-data and block reads on a master without it; the busy bit stays    *)
(* set for every kind of duration and the fifo stays empty for 0, 1,       *)
(* FIFO_RETRIES - 1, FIFO_RETRIES and FIFO_RETRIES + 1 reads.              *)
(* ---------------------------------------------------------------------- *)
TimingClasses == {0, 1, 2, 3, 4, 255}

PollConfigs ==
    { [ver |-> 2, t |-> t, call |-> c] :
        t \in TimingClasses,
        c \in { x \in Calls(<<0, 0>>, {80}, {1}, {}) :
                  x.size = "BLOCK_DATA" /\ x.read_write = I2C_SMBUS_READ } }
    \cup
    { [ver |-> 1, t |-> 1, call |-> c] :
        c \in { x \in Calls(<<0, 0>>, {80}, {1}, {}) :
                  x.size \in {"BYTE_DATA", "BLOCK_DATA"}
                  /\ x.read_write = I2C_SMBUS_READ } }

InitPoll ==
    \E c \in PollConfigs :
        /\ smaster = (0 :> Master(32768, c.ver, 1))
        /\ mutex = (0 :> 0)
        /\ dirty = (0 :> FALSE)
        /\ mem = ZeroMem(0 :> Master(32768, c.ver, 1))
        /\ bparams = (<<0, 0>> :> <<[Override EXCEPT !.t = c.t]>>)
        /\ th = (1 :> c.call)
        /\ cr = [state |-> "unused"]
        /\ tgt = NoTarget
        /\ md = NoMdio
        /\ ctx = NoCtx
        /\ env = [faults |-> {"ack"}, lens |-> {1},
                  empties |-> {0, 1, FIFO_RETRIES - 1, FIFO_RETRIES, FIFO_RETRIES + 1},
                  busies |-> {"idle", "short", "almost", "exact", "stuck"}]

SpecPoll == InitPoll /\ [][Next]_vars

(* ---------------------------------------------------------------------- *)
(* Specification of the retry loop: one thread, a master whose max_retries *)
(* (the int module parameter smbus_master_max_retries) is negative, zero,  *)
(* one or the default, and hardware that may fail any response.            *)
(* ---------------------------------------------------------------------- *)
RetryCounts == {-1, 0, 1, MASTER_DEFAULT_MAX_RETRIES}

RetryConfigs ==
    { [ver |-> 1, mr |-> mr, call |-> c] :
        mr \in RetryCounts,
        c \in { x \in Calls(<<0, 0>>, {80}, {1}, {}) :
                  \/ x.size = "QUICK" /\ x.read_write = I2C_SMBUS_WRITE
                  \/ x.size = "BYTE_DATA" /\ x.read_write = I2C_SMBUS_READ } }
    \cup
    { [ver |-> 2, mr |-> mr, call |-> c] :
        mr \in RetryCounts,
        c \in { x \in Calls(<<0, 0>>, {80}, {1}, {}) :
                  x.size = "BLOCK_DATA" /\ x.read_write = I2C_SMBUS_READ } }

InitRetry ==
    \E c \in RetryConfigs :
        /\ smaster = (0 :> Master(32768, c.ver, c.mr))
        /\ mutex = (0 :> 0)
        /\ dirty = (0 :> FALSE)
        /\ mem = ZeroMem(0 :> Master(32768, c.ver, c.mr))
        /\ bparams = (<<0, 0>> :> <<>>)
        /\ th = (1 :> c.call)
        /\ cr = [state |-> "unused"]
        /\ tgt = NoTarget
        /\ md = NoMdio
        /\ ctx = NoCtx
        /\ env = [faults |-> {"ack", "tid"}, lens |-> {1}, empties |-> {0},
                  busies |-> {"idle", "stuck"}]

SpecRetry == InitRetry /\ [][Next]_vars

(* ---------------------------------------------------------------------- *)
(* Specification of long transfers: one thread; a message of               *)
(* scd_smbus_master_xfer whose length (msgs[].len, not limited by the      *)
(* function) gives 63 phases or more, next to a short one; a BLOCK_DATA    *)
(* read on a master with hardware block read.                              *)
(* ---------------------------------------------------------------------- *)
LongMsgLen == 62

LongConfigs ==
    { [ver |-> 1, call |-> c] :
        c \in Calls(<<0, 0>>, {80}, {}, {MsgLen, LongMsgLen - 1, LongMsgLen}) }
    \cup
    { [ver |-> 2, call |-> c] :
        c \in { x \in Calls(<<0, 0>>, {80}, {1}, {}) :
                  x.size = "BLOCK_DATA" /\ x.read_write = I2C_SMBUS_READ } }

InitLong ==
    \E c \in LongConfigs :
        /\ smaster = (0 :> Master(32768, c.ver, 1))
        /\ mutex = (0 :> 0)
        /\ dirty = (0 :> FALSE)
        /\ mem = ZeroMem(0 :> Master(32768, c.ver, 1))
        /\ bparams = (<<0, 0>> :> <<>>)
        /\ th = (1 :> c.call)
        /\ cr = [state |-> "unused"]
        /\ tgt = NoTarget
        /\ md = NoMdio
        /\ ctx = NoCtx
        /\ env = [faults |-> {"ack"}, lens |-> {1}, empties |-> {0},
                  busies |-> {"idle", "stuck"}]

SpecLong == InitLong /\ [][Next]_vars

(* ---------------------------------------------------------------------- *)
(* Specification of a master being added while clients use its buses: the  *)
(* thread that wrote the smbus_master line to new_object runs              *)
(* scd_smbus_master_add step by step under the context lock; a client      *)
(* calls scd_smbus_access_impl on bus 0 as soon as i2c_add_adapter has     *)
(* made the adapter visible.  ctx.mutex is the holder of the context lock, *)
(* ctx.w the writer's position; the master was kzalloc'ed, so its          *)
(* br_supported is 0 until the writer sets it.                             *)
(* ---------------------------------------------------------------------- *)
ConfigWriter == -1

WriterAt(pc) == ctx.on /\ ctx.w.pc = pc

WriterStep(pc) == ctx' = [ctx EXCEPT !.w.pc = pc]

(* new_object: scd_lock, the initialized test, parse_lines down to the     *)
(* kzalloc and the field setup of scd_smbus_master_add.                    *)
new_object_enter ==
    /\ WriterAt("idle")
    /\ ctx.mutex = 0
    /\ ctx' = [ctx EXCEPT !.mutex = ConfigWriter, !.w.pc = "bus_register"]
    /\ UNCHANGED <<th, mutex, mem, dirty, smaster, bparams, env, cr, tgt, md>>

(* scd_smbus_bus_add up to i2c_add_adapter: the adapter is registered.     *)
i2c_add_adapter ==
    /\ WriterAt("bus_register")
    /\ ctx' = [ctx EXCEPT !.registered = @ \cup {<<0, ctx.w.i>>}, !.w.pc = "bus_lock"]
    /\ UNCHANGED <<th, mutex, mem, dirty, smaster, bparams, env, cr, tgt, md>>

(* scd_smbus_bus_add: smbus_master_lock(master).                           *)
scd_smbus_bus_add_lock ==
    /\ WriterAt("bus_lock")
    /\ mutex[0] = 0
    /\ mutex' = [mutex EXCEPT ![0] = ConfigWriter]
    /\ WriterStep("bus_link")
    /\ UNCHANGED <<th, mem, dirty, smaster, bparams, env, cr, tgt, md>>

scd_smbus_bus_add_link_no_unlock ==
    /\ WriterAt("bus_link")
    /\ ctx' = [ctx EXCEPT !.bus_list = Append(@, ctx.w.i),
                          !.w.i = @ + 1,
                          !.w.pc = IF ctx.w.i + 1 < ctx.w.bus_count
                                   THEN "bus_register" ELSE "reset1"]
    /\ UNCHANGED <<th, mutex, mem, dirty, smaster, bparams, env, cr, tgt, md>>

(* scd_smbus_bus_add: list_add_tail, smbus_master_unlock; then the next    *)
(* iteration of the loop of scd_smbus_master_add.                          *)
scd_smbus_bus_add_link ==
    /\ WriterAt("bus_link")
    /\ mutex' = [mutex EXCEPT ![0] = 0]
    /\ ctx' = [ctx EXCEPT !.bus_list = Append(@, ctx.w.i),
                          !.w.i = @ + 1,
                          !.w.pc = IF ctx.w.i + 1 < ctx.w.bus_count
                                   THEN "bus_register" ELSE "reset1"]
    /\ UNCHANGED <<th, mem, dirty, smaster, bparams, env, cr, tgt, md>>

(* scd_smbus_master_add: smbus_master_reset, first half (no lock taken).   *)
master_add_reset_set ==
    /\ WriterAt("reset1")
    /\ mem' = [mem EXCEPT ![CsOffset(0)] = [CsRead(0) EXCEPT !.reset = 1, !.foe = 1]]
    /\ WriterStep("reset2")
    /\ UNCHANGED <<th, mutex, dirty, smaster, bparams, env, cr, tgt, md>>

(* smbus_master_reset, second half.                                        *)
master_add_reset_clear ==
    /\ WriterAt("reset2")
    /\ mem' = [mem EXCEPT ![CsOffset(0)] = [@ EXCEPT !.reset = 0]]
    /\ WriterStep("read_cs")
    /\ UNCHANGED <<th, mutex, dirty, smaster, bparams, env, cr, tgt, md>>

(* cs = smbus_master_read_cs(master); br_supported = (cs.ver >= 2).        *)
master_add_read_version ==
    /\ WriterAt("read_cs")
    /\ smaster' = [smaster EXCEPT ![0].br_supported = (CsRead(0).ver >= 2)]
    /\ WriterStep("list_add")
    /\ UNCHANGED <<th, mutex, mem, dirty, bparams, env, cr, tgt, md>>

(* list_add_tail(&master->list, ...), return 0; new_object: scd_unlock.    *)
master_add_insert ==
    /\ WriterAt("list_add")
    /\ ctx' = [ctx EXCEPT !.mutex = 0, !.inserted = TRUE, !.w.pc = "done"]
    /\ UNCHANGED <<th, mutex, mem, dirty, smaster, bparams, env, cr, tgt, md>>

(* A client of a registered adapter calls scd_smbus_access_impl.           *)
client_call(t) ==
    /\ th[t].bus \in ctx.registered
    /\ scd_smbus_access_impl(t)

NextAdd ==
    \/ new_object_enter
    \/ i2c_add_adapter
    \/ scd_smbus_bus_add_lock
    \/ scd_smbus_bus_add_link
    \/ master_add_reset_set
    \/ master_add_reset_clear
    \/ master_add_read_version
    \/ master_add_insert
    \/ \E t \in Threads : client_call(t)
    \/ \E t \in Threads : smbus_master_lock(t)
    \/ \E t \in Threads : scd_smbus_do_impl(t)
    \/ \E t \in Threads : smbus_master_write_req(t)
    \/ \E t \in Threads : smbus_master_read_resp(t)
    \/ \E t \in Threads : block_read_write_req(t)
    \/ \E t \in Threads : block_read_wait(t)
    \/ \E t \in Threads : block_read_resp(t)
    \/ \E t \in Threads : smbus_master_reset_set(t)
    \/ \E t \in Threads : smbus_master_reset_clear(t)
    \/ \E t \in Threads : smbus_master_unlock(t)

AddBusCounts == {1, 2}

InitAdd ==
    \E n \in AddBusCounts,
       c \in { x \in Calls(<<0, 0>>, {80}, {1}, {}) :
                 \/ x.size = "BLOCK_DATA" /\ x.read_write = I2C_SMBUS_READ
                 \/ x.size = "BYTE" /\ x.read_write = I2C_SMBUS_READ } :
        /\ smaster = (0 :> [Master(32768, 2, 2) EXCEPT !.br_supported = FALSE])
        /\ mutex = (0 :> 0)
        /\ dirty = (0 :> FALSE)
        /\ mem = ZeroMem(0 :> Master(32768, 2, 2))
        /\ bparams = (<<0, 0>> :> <<>>)
        /\ th = (1 :> c)
        /\ cr = [state |-> "unused"]
        /\ tgt = NoTarget
        /\ md = NoMdio
        /\ ctx = [on |-> TRUE, log |-> <<>>, mutex |-> 0, registered |-> {},
                  bus_list |-> <<>>, inserted |-> FALSE,
                  w |-> [pc |-> "idle", i |-> 0, bus_count |-> n]]
        /\ env = [faults |-> {"ack"}, lens |-> {1}, empties |-> {0},
                  busies |-> {"idle", "stuck"}]

SpecAdd == InitAdd /\ [][NextAdd]_vars

(* ---------------------------------------------------------------------- *)
(* Specification of concurrent transactions: threads 1 and 2 on buses 0    *)
(* and 1 of master 0, thread 3 on bus 0 of master 1.                       *)
(* ---------------------------------------------------------------------- *)
ConcRetries == 2

ConcMasters == (0 :> Master(32768, 2, ConcRetries)) @@ (1 :> Master(32896, 1, ConcRetries))

ConcCalls(bus, sizes) ==
    { x \in Calls(bus, {80}, {1}, {}) : x.size \in sizes /\ x.read_write = I2C_SMBUS_READ }

InitConc ==
    /\ smaster = ConcMasters
    /\ mutex = [m \in DOMAIN ConcMasters |-> 0]
    /\ dirty = [m \in DOMAIN ConcMasters |-> FALSE]
    /\ mem = ZeroMem(ConcMasters)
    /\ bparams = [b \in {<<0, 0>>, <<0, 1>>, <<1, 0>>} |-> <<>>]
    /\ \E c1 \in ConcCalls(<<0, 0>>, {"BLOCK_DATA"}),
          c2 \in ConcCalls(<<0, 1>>, {"QUICK", "BYTE"}),
          c3 \in ConcCalls(<<1, 0>>, {"QUICK"}) :
         th = (1 :> c1) @@ (2 :> c2) @@ (3 :> c3)
    /\ cr = [state |-> "unused"]
    /\ tgt = NoTarget
    /\ md = NoMdio
    /\ ctx = NoCtx
    /\ env = [faults |-> {"ack"}, lens |-> {1}, empties |-> {0},
              busies |-> {"idle", "stuck"}]

SpecConc == InitConc /\ [][Next]_vars

(* ---------------------------------------------------------------------- *)
(* Specification of the timing-parameter overrides: the smbus_tweaks        *)
(* attribute sets overrides on two buses of one master at any time, while   *)
(* one transaction runs on bus 0.                                           *)
(* ---------------------------------------------------------------------- *)
ENOMEM == 12

ParamsBuses == {<<0, 0>>, <<0, 1>>}

(* bus->adap.nr, the number the i2c core gave the adapter.                  *)
AdapNr(bus) == 10 + bus[2]

TweakAddrs == {80, 81}

TweakValues ==
    { [t |-> 2, datw |-> 1, datr |-> 2, ed |-> 1],
      [t |-> 5, datw |-> 6, datr |-> 0, ed |-> 0] }

TweakLine(nr, a, v) ==
    [bus |-> nr, addr |-> a, t |-> v.t, datw |-> v.datw, datr |-> v.datr, ed |-> v.ed]

(* The lines written to smbus_tweaks: every address and value on bus 0,    *)
(* one address on bus 1, and a line for an adapter that does not exist.    *)
TweakLines ==
    { TweakLine(AdapNr(<<0, 0>>), a, v) : a \in TweakAddrs, v \in TweakValues }
    \cup { TweakLine(AdapNr(<<0, 1>>), 80, v) : v \in TweakValues }
    \cup { TweakLine(99, 80, v) : v \in TweakValues }

(* scd_find_smbus: the buses whose adapter number is bus_nr.                *)
scd_find_smbus(bus_nr) == { b \in DOMAIN bparams : AdapNr(b) = bus_nr }

FindParams_first_entry_only(list, addr) ==
    IF Len(list) > 0 /\ list[1].addr = addr THEN 1 ELSE 0

(* The list_for_each_entry of scd_set_smbus_params: the entry with the      *)
(* address, 0 when there is none.                                           *)
FindParams(list, addr) ==
    IF \E k \in 1..Len(list) : list[k].addr = addr
    THEN CHOOSE k \in 1..Len(list) :
            list[k].addr = addr /\ \A j \in 1..(k - 1) : list[j].addr # addr
    ELSE 0

(* smbus_tweaks -> parse_smbus_tweak -> scd_set_smbus_params for one line,  *)
(* under the context lock; kzalloc may fail.                                *)
scd_set_smbus_params ==
    \E l \in TweakLines, alloc \in BOOLEAN :
        LET p == [addr |-> l.addr, t |-> l.t, datw |-> l.datw, datr |-> l.datr,
                  ed |-> l.ed]
            found == scd_find_smbus(l.bus)
        IN
        /\ cr.state \in {"idle", "set"}
        /\ IF found = {}
           THEN /\ cr' = [state |-> "set", ret |-> -EINVAL]
                /\ bparams' = bparams
           ELSE LET b == CHOOSE x \in found : TRUE
                    k == FindParams(bparams[b], l.addr)
                IN
                IF k # 0
                THEN /\ bparams' = [bparams EXCEPT ![b][k] = p]
                     /\ cr' = [state |-> "set", ret |-> 0]
                ELSE IF alloc
                THEN /\ bparams' = [bparams EXCEPT ![b] = Append(@, p)]
                     /\ cr' = [state |-> "set", ret |-> 0]
                ELSE /\ bparams' = bparams
                     /\ cr' = [state |-> "set", ret |-> -ENOMEM]
        /\ UNCHANGED <<th, mutex, mem, dirty, smaster, env, tgt, md, ctx>>

ParamsCalls ==
    { x \in Calls(<<0, 0>>, TweakAddrs, {1}, {}) :
         \/ x.size = "BYTE_DATA"
         \/ x.size = "BLOCK_DATA" /\ x.read_write = I2C_SMBUS_READ }

InitParams ==
    \E ver \in {1, 2}, c \in ParamsCalls :
        /\ ver = 2 => c.size = "BLOCK_DATA"
        /\ smaster = (0 :> Master(32768, ver, 1))
        /\ mutex = (0 :> 0)
        /\ dirty = (0 :> FALSE)
        /\ mem = ZeroMem(0 :> Master(32768, ver, 1))
        /\ bparams = [b \in ParamsBuses |-> <<>>]
        /\ th = (1 :> c)
        /\ cr = [state |-> "idle"]
        /\ tgt = NoTarget
        /\ md = NoMdio
        /\ ctx = NoCtx
        /\ env = [faults |-> {"ack"}, lens |-> {1}, empties |-> {0},
                  busies |-> {"idle"}]

NextParams ==
    \/ scd_set_smbus_params
    \/ Next

SpecParams == InitParams /\ [][NextParams]_vars

(* ---------------------------------------------------------------------- *)
(* Specification of the block round trip: one client writes a block of N   *)
(* bytes to <<address, command>> of a storing target and then reads the    *)
(* block back, on a master without hardware block read.                    *)
(* ---------------------------------------------------------------------- *)
MaxBlock == 3

I2C_SMBUS_BLOCK_MAX == 32

DataBytes == {17, 254}

(* The caller's union i2c_smbus_data of a block write: block[0] = N, then  *)
(* the N bytes.                                                            *)
BlockBuffer(bytes) ==
    [k \in 1..SMBUS_ACCESS_DATA_SIZE |->
        IF k = 1 THEN Len(bytes)
        ELSE IF k - 1 <= Len(bytes) THEN bytes[k - 1] ELSE 0]

WrittenBlocks ==
    UNION { [1..n -> DataBytes] : n \in 0..MaxBlock }
    \cup { [k \in 1..I2C_SMBUS_BLOCK_MAX |-> 16 + k] }

TargetStore == [k \in {<<80, 7>>, <<80, 9>>} |-> <<>>]

InitTarget ==
    \E bytes \in WrittenBlocks :
        /\ smaster = (0 :> Master(32768, 1, 1))
        /\ mutex = (0 :> 0)
        /\ dirty = (0 :> FALSE)
        /\ mem = ZeroMem(0 :> Master(32768, 1, 1))
        /\ bparams = (<<0, 0>> :> <<>>)
        /\ th = (1 :> [NewThread(<<0, 0>>, "BLOCK_DATA", I2C_SMBUS_WRITE, 80, 7, 0,
                                 SMBUS_ACCESS_DATA_SIZE)
                         EXCEPT !.data = BlockBuffer(bytes)])
        /\ cr = [state |-> "writing", written |-> BlockBuffer(bytes), wret |-> 0]
        /\ tgt = [on |-> TRUE, cur |-> <<>>, store |-> TargetStore]
        /\ md = NoMdio
        /\ ctx = NoCtx
        /\ env = [faults |-> {}, lens |-> {}, empties |-> {0}, busies |-> {}]

(* The client, after its block write returned: the block read of the same  *)
(* address and command into a zeroed buffer (scd_smbus_access).            *)
client_read_back(t) ==
    /\ cr.state = "writing"
    /\ th[t].pc = "done"
    /\ th' = [th EXCEPT ![t] = NewThread(th[t].bus, "BLOCK_DATA", I2C_SMBUS_READ,
                                         th[t].addr, th[t].command, 0,
                                         SMBUS_ACCESS_DATA_SIZE)]
    /\ cr' = [cr EXCEPT !.state = "reading", !.wret = th[t].ret]
    /\ UNCHANGED <<mutex, mem, dirty, smaster, bparams, env, tgt, md, ctx>>

NextTarget ==
    \/ \E t \in Threads : scd_smbus_access_impl(t)
    \/ \E t \in Threads : smbus_master_lock(t)
    \/ \E t \in Threads : scd_smbus_do_impl(t)
    \/ \E t \in Threads : smbus_master_write_req(t)
    \/ \E t \in Threads : smbus_master_read_resp(t)
    \/ \E t \in Threads : smbus_master_unlock(t)
    \/ \E t \in Threads : client_read_back(t)

SpecTarget == InitTarget /\ [][NextTarget]_vars

(* ---------------------------------------------------------------------- *)
(* The MDIO engine: scd_mii_bus_do -> scd_mdio_bus_request ->              *)
(* mdio_master_wait_response.  One step of a caller is one register access  *)
(* or one lock operation.  The register layouts and the MDIO_WAIT_* macros  *)
(* are declared in scd-mdio.h; the request id and the data are 8 and 16     *)
(* bits wide, the delay doubles at each poll, and the wait ends when the    *)
(* delay exceeds MDIO_WAIT_MAX.                                            *)
(* ---------------------------------------------------------------------- *)
EAGAIN == 11
EOPNOTSUPP == 95
MDIO_PHY_ID_C45 == 32768
MDIO_WAIT_INITIAL == 1
MDIO_WAIT_MAX_UDELAY == 4
MDIO_WAIT_MAX == 8

MDIO_WAIT_NEXT(delay) == delay * 2

MDIO_WAIT_END(delay) == delay > MDIO_WAIT_MAX

mdio_request_lo_reg == [bs |-> 0, t |-> 0, op |-> "NONE", dt |-> 0, pa |-> 0, d |-> 0]

mdio_request_hi_reg == [ri |-> 0]

mdio_ctrl_status_reg == [sp |-> 0, fe |-> 0, reset |-> 0]

mdio_response_reg == [ts |-> 0, fe |-> 0, d |-> 0]

MdioThreads == DOMAIN md.th

(* get_default_mdio_cs.                                                    *)
get_default_mdio_cs == [mdio_ctrl_status_reg EXCEPT !.sp = md.speed]

(* The locals of one call of scd_mii_bus_do(mii_bus, addr, op, regnum,     *)
(* val): prtad, devad and clause are computed from addr at entry.  phase   *)
(* is the request in progress (the set-address request or the operate      *)
(* request), tr the register accesses made for it so far.                  *)
MdioCall(bus, addr, op, regnum, val) ==
    [pc |-> "call", bus |-> bus, addr |-> addr, op |-> op, regnum |-> regnum,
     val |-> val,
     prtad |-> addr \div 32,
     devad |-> addr % 32,
     clause |-> IF (addr \div MDIO_PHY_ID_C45) % 2 = 1 THEN 1 ELSE 0,
     phase |-> "none", delay |-> 0, slept |-> FALSE, err |-> 0, ret |-> 0,
     tr |-> <<>>, nreq |-> 0, ri |-> -1, rc |-> -1]

MdSet(t, r) == [md EXCEPT !.th[t] = r]

(* mdio_master_lock at the start of scd_mii_bus_do.                        *)
mdio_master_lock_does_not_block(t) == TRUE

mdio_master_lock_free(t) == md.mutex = 0

mdio_master_lock(t) ==
    /\ md.on
    /\ md.th[t].pc = "call"
    /\ mdio_master_lock_free(t)
    /\ md' = [MdSet(t, [md.th[t] EXCEPT !.pc = "irq", !.phase = "set", !.tr = <<>>])
                EXCEPT !.mutex = t]
    /\ UNCHANGED smbus_vars

(* mdio_master_reset_interrupt: cs = default with fe = 1, written to the   *)
(* control/status register; before the request and after the wait.         *)
mdio_master_reset_interrupt(t) ==
    LET r == md.th[t] IN
    /\ md.on
    /\ r.pc \in {"irq", "irq2"}
    /\ md' = [MdSet(t, [r EXCEPT !.pc = IF r.pc = "irq" THEN "lo" ELSE "resp",
                                 !.tr = Append(@, "irq")])
                EXCEPT !.cs = [get_default_mdio_cs EXCEPT !.fe = 1]]
    /\ UNCHANGED smbus_vars

(* The op and the payload of the request in progress.                      *)
RequestOp(r) == IF r.phase = "set" THEN "SET" ELSE r.op

RequestData(r) == IF r.phase = "set" THEN r.regnum % 65536 ELSE r.val % 65536

(* scd_mdio_bus_request: the write of req_lo.                              *)
mdio_write_req_lo(t) ==
    LET r == md.th[t] IN
    /\ md.on
    /\ r.pc = "lo"
    /\ md' = [MdSet(t, [r EXCEPT !.pc = "hi", !.tr = Append(@, "lo")])
                EXCEPT !.req_lo = [bs |-> r.bus, t |-> r.clause, op |-> RequestOp(r),
                                   dt |-> r.devad, pa |-> r.prtad,
                                   d |-> RequestData(r)]]
    /\ UNCHANGED smbus_vars

mdio_master_get_req_id_no_increment(req_id) == req_id

(* mdio_master_get_req_id: master->req_id++ of a u8; the new req_id.       *)
mdio_master_get_req_id(req_id) == (req_id + 1) % 256

(* What the PHY does with a request once req_hi is written: a SET selects  *)
(* the register of <<bus, port, device>>, a WRITE stores the value in the  *)
(* selected register, a READ puts the selected register's value in the     *)
(* response.                                                               *)
PhyExec(phy, lo) ==
    LET k == <<lo.bs, lo.pa, lo.dt>> IN
    IF k \notin DOMAIN phy.sel THEN phy
    ELSE CASE lo.op = "SET" -> [phy EXCEPT !.sel[k] = lo.d]
           [] lo.op = "WRITE" ->
                 [phy EXCEPT !.store = [x \in DOMAIN @ \cup {<<k, phy.sel[k]>>} |->
                                           IF x = <<k, phy.sel[k]>> THEN lo.d ELSE @[x]]]
           [] lo.op = "READ" ->
                 [phy EXCEPT !.out = IF <<k, phy.sel[k]>> \in DOMAIN phy.store
                                     THEN phy.store[<<k, phy.sel[k]>>] ELSE 65535]
           [] OTHER -> phy

(* scd_mdio_bus_request: req_hi.ri = mdio_master_get_req_id(master), the   *)
(* write of req_hi, and the entry of mdio_master_wait_response.            *)
mdio_write_req_hi(t) ==
    LET r == md.th[t] IN
    /\ md.on
    /\ r.pc = "hi"
    /\ md' = [MdSet(t, [r EXCEPT !.pc = "wait", !.tr = Append(@, "hi"),
                                 !.delay = MDIO_WAIT_INITIAL, !.nreq = @ + 1,
                                 !.ri = md.req_id])
                EXCEPT !.req_hi = [ri |-> md.req_id],
                       !.req_id = mdio_master_get_req_id(md.req_id),
                       !.nphys = @ + 1,
                       !.phy = PhyExec(@, md.req_lo)]
    /\ UNCHANGED smbus_vars

scd_mii_bus_do_returns_on_set_error(r, res) ==
    IF r.phase = "set"
    THEN (IF res # 0
          THEN [r EXCEPT !.pc = "done", !.err = res, !.ret = res]
          ELSE [r EXCEPT !.pc = "irq", !.phase = "op", !.tr = <<>>, !.err = res])
    ELSE [r EXCEPT !.pc = "unlock", !.err = res]

(* scd_mii_bus_do after scd_mdio_bus_request returned res: a failed        *)
(* set-address request goes to final, a successful one is followed by the  *)
(* operate request, whose result is the result of the call.                *)
scd_mii_bus_do(r, res) ==
    IF r.phase = "set"
    THEN (IF res # 0
          THEN [r EXCEPT !.pc = "unlock", !.err = res]
          ELSE [r EXCEPT !.pc = "irq", !.phase = "op", !.tr = <<>>, !.err = res])
    ELSE [r EXCEPT !.pc = "unlock", !.err = res]

WaitStep_other_counts_poll_again(r, res_count) ==
    IF res_count = 1
    THEN [r EXCEPT !.pc = "irq2", !.tr = Append(@, "cs1")]
    ELSE [r EXCEPT !.delay = MDIO_WAIT_NEXT(r.delay),
                   !.slept = ~(r.delay < MDIO_WAIT_MAX_UDELAY),
                   !.tr = Append(@, "cs0")]

WaitStep_delay_not_advanced(r, res_count) ==
    IF res_count = 1
    THEN [r EXCEPT !.pc = "irq2", !.tr = Append(@, "cs1")]
    ELSE IF res_count = 0
    THEN [r EXCEPT !.slept = ~(r.delay < MDIO_WAIT_MAX_UDELAY)]
    ELSE scd_mii_bus_do([r EXCEPT !.tr = Append(@, "csX")], -EOPNOTSUPP)

(* One iteration of the loop of mdio_master_wait_response after the read   *)
(* of control/status returned res_count.                                   *)
WaitStep(r, res_count) ==
    IF res_count = 1
    THEN [r EXCEPT !.pc = "irq2", !.tr = Append(@, "cs1")]
    ELSE IF res_count = 0
    THEN [r EXCEPT !.delay = MDIO_WAIT_NEXT(r.delay),
                   !.slept = ~(r.delay < MDIO_WAIT_MAX_UDELAY),
                   !.tr = Append(@, "cs0")]
    ELSE scd_mii_bus_do([r EXCEPT !.tr = Append(@, "csX")], -EOPNOTSUPP)

(* mdio_master_wait_response: the loop test, then one iteration; the loop  *)
(* left by its test returns -EAGAIN.                                       *)
mdio_master_wait_response(t) ==
    LET r == md.th[t] IN
    /\ md.on
    /\ r.pc = "wait"
    /\ IF MDIO_WAIT_END(r.delay)
       THEN md' = MdSet(t, scd_mii_bus_do([r EXCEPT !.tr = Append(@, "end")], -EAGAIN))
       ELSE \E res_count \in md.res_counts :
               md' = MdSet(t, [WaitStep(r, res_count) EXCEPT !.rc = res_count])
    /\ UNCHANGED smbus_vars

(* What a read of the response register may return.                        *)
MdioResponses ==
    IF md.hw = "phy" THEN {[ts |-> 1, fe |-> 0, d |-> md.phy.out]}
    ELSE { [ts |-> ts, fe |-> fe, d |-> d] : ts \in {0, 1}, fe \in {0, 1}, d \in {0, 65535} }

CheckResponse_framing_only(r, resp) ==
    IF resp.fe = 1 THEN -EIO
    ELSE IF RequestOp(r) = "READ" THEN resp.d
    ELSE 0

(* The end of scd_mdio_bus_request: the result for a response.             *)
CheckResponse(r, resp) ==
    IF resp.ts # 1 \/ resp.fe = 1 THEN -EIO
    ELSE IF RequestOp(r) = "READ" THEN resp.d
    ELSE 0

(* scd_mdio_bus_request: the read of the response register and the return. *)
mdio_read_resp(t) ==
    LET r == md.th[t] IN
    /\ md.on
    /\ r.pc = "resp"
    /\ \E resp \in MdioResponses :
         md' = [MdSet(t, scd_mii_bus_do([r EXCEPT !.tr = Append(@, "resp")],
                                        CheckResponse(r, resp)))
                  EXCEPT !.resp = resp]
    /\ UNCHANGED smbus_vars

(* final: mdio_master_unlock and the return of err.                        *)
mdio_master_unlock(t) ==
    LET r == md.th[t] IN
    /\ md.on
    /\ r.pc = "unlock"
    /\ md' = [MdSet(t, [r EXCEPT !.pc = "done", !.ret = r.err, !.delay = 0,
                                 !.slept = FALSE])
                EXCEPT !.mutex = 0]
    /\ UNCHANGED smbus_vars

NextMdio ==
    \/ \E t \in MdioThreads : mdio_master_lock(t)
    \/ \E t \in MdioThreads : mdio_master_reset_interrupt(t)
    \/ \E t \in MdioThreads : mdio_write_req_lo(t)
    \/ \E t \in MdioThreads : mdio_write_req_hi(t)
    \/ \E t \in MdioThreads : mdio_master_wait_response(t)
    \/ \E t \in MdioThreads : mdio_read_resp(t)
    \/ \E t \in MdioThreads : mdio_master_unlock(t)

MdioAddrs == {1 * 32 + 2, MDIO_PHY_ID_C45 + 1 * 32 + 3}

(* The <<bus, port, device>> triples the callers address.                  *)
PhyKeys == { <<b, a \div 32, a % 32>> : b \in {0, 1}, a \in MdioAddrs }

(* An MDIO master after scd_mdio_master_add, with req_id requests made     *)
(* before (the high request register holds the id of the last one).        *)
MdioMaster(speed, req_id, hw, res_counts, calls) ==
    [on |-> TRUE, mutex |-> 0, speed |-> speed, req_id |-> req_id,
     nphys |-> req_id,
     req_lo |-> mdio_request_lo_reg,
     req_hi |-> [ri |-> IF req_id = 0 THEN 0 ELSE req_id - 1],
     cs |-> mdio_ctrl_status_reg, resp |-> mdio_response_reg,
     hw |-> hw, res_counts |-> res_counts, written |-> -1,
     phy |-> [sel |-> [k \in PhyKeys |-> 0], store |-> <<>>, out |-> 0],
     th |-> calls]

NoSmbus ==
    /\ th = <<>>
    /\ smaster = <<>>
    /\ mutex = <<>>
    /\ dirty = <<>>
    /\ mem = <<>>
    /\ bparams = <<>>
    /\ tgt = NoTarget
    /\ cr = [state |-> "unused"]
    /\ env = [faults |-> {}, lens |-> {}, empties |-> {}, busies |-> {}]
    /\ ctx = NoCtx

(* Two callers on buses 0 and 1 of one master; the hardware answers a poll *)
(* with any result count of 0, 1, 2 and a read of the response register    *)
(* with any flags.                                                         *)
MdioCalls(bus) ==
    { MdioCall(bus, a, op, 5, v) :
        a \in MdioAddrs, op \in {"READ", "WRITE"}, v \in {4660} }

InitMdio ==
    /\ NoSmbus
    /\ \E c1 \in MdioCalls(0), c2 \in MdioCalls(1), id \in {0, 255} :
          /\ c2.op = "READ"
          /\ md = MdioMaster(1, id, "any", {0, 1, 2}, (1 :> c1) @@ (2 :> c2))

SpecMdio == InitMdio /\ [][NextMdio]_vars

SpecMdioFair == SpecMdio /\ WF_vars(NextMdio)

(* A client that wrote a register reads it back: scd_mii_bus_write         *)
(* returned 0, then scd_mii_bus_read of the same addr and regnum.          *)
mdio_client_read_back(t) ==
    LET r == md.th[t] IN
    /\ md.on
    /\ md.written = -1
    /\ t = 1
    /\ r.pc = "done" /\ r.op = "WRITE" /\ r.ret = 0
    /\ md' = [MdSet(t, MdioCall(r.bus, r.addr, "READ", r.regnum, 0))
                EXCEPT !.written = r.val]
    /\ UNCHANGED smbus_vars

NextPhy ==
    \/ NextMdio
    \/ \E t \in MdioThreads : mdio_client_read_back(t)

(* A PHY that stores what is written and always answers with result count *)
(* 1, transaction started and no framing error; caller 1 writes a value,   *)
(* caller 2 writes another register of the same port and device.           *)
PhyValues == {0, 4660, 65535}

InitPhy ==
    /\ NoSmbus
    /\ \E a \in MdioAddrs, v \in PhyValues, id \in {0, 255}, b \in {0, 1} :
          md = MdioMaster(1, id, "phy", {1},
                          (1 :> MdioCall(0, a, "WRITE", 5, v))
                          @@ (2 :> MdioCall(b, a, "WRITE", 6, 99)))

SpecPhy == InitPhy /\ [][NextPhy]_vars

(* ---------------------------------------------------------------------- *)
(* The registry: probe, new_object (smbus_master and mdio_master lines),   *)
(* finish_init and remove of one device. Every handler runs under          *)
(* scd_lock; ctx.log lists, in order, what the last handler did to the     *)
(* bus frameworks, the hardware, the lists and the memory.                 *)
(* ---------------------------------------------------------------------- *)
EEXIST == 17
EBUSY == 16
ResSize == 4096
MaxMasters == 3

(* One call made by a handler: arg is the bus index of a per-bus call, the *)
(* value read for a register read, and -1 otherwise.                       *)
Ev(e, kind, id, arg) == [ev |-> e, kind |-> kind, id |-> id, arg |-> arg]

(* The events of a loop over the buses 0..n-1 of a master.                 *)
PerBus(e, kind, id, n) == [i \in 1..n |-> Ev(e, kind, id, i - 1)]

(* smbus_master_reset / mdio_master_reset: reset = 1, delay, reset = 0.    *)
ResetEv(kind, id) == <<Ev("reset", kind, id, -1)>>

(* scd_smbus_master_remove up to the list_del of the master: every         *)
(* i2c_del_adapter, the reset, then the unlink and kfree of every bus.     *)
scd_smbus_master_remove(m) ==
    PerBus("unregister", "smbus", m.id, Len(m.bus_list))
    \o ResetEv("smbus", m.id)
    \o PerBus("kfree_bus", "smbus", m.id, Len(m.bus_list))

(* scd_mdio_master_remove up to the list_del of the master: the reset,     *)
(* then per bus the mdiobus_unregister and free followed by the kfree.     *)
scd_mdio_master_remove(m) ==
    ResetEv("mdio", m.id)
    \o [i \in 1..(2 * Len(m.bus_list)) |->
          IF i % 2 = 1 THEN Ev("unregister", "mdio", m.id, (i - 1) \div 2)
          ELSE Ev("kfree_bus", "mdio", m.id, (i - 1) \div 2)]

master_remove(kind, m) ==
    IF kind = "smbus" THEN scd_smbus_master_remove(m) ELSE scd_mdio_master_remove(m)

(* list_del(&master->list), mutex_destroy, kfree(master) of a master that  *)
(* is in the context's list.                                               *)
UnlinkAndFree(kind, m) ==
    <<Ev("list_del", kind, m.id, -1), Ev("kfree_master", kind, m.id, -1)>>

RECURSIVE remove_all(_, _)
(* scd_smbus_remove_all / scd_mdio_remove_all.                             *)
remove_all(kind, list) ==
    IF list = <<>> THEN <<>>
    ELSE master_remove(kind, Head(list)) \o UnlinkAndFree(kind, Head(list))
         \o remove_all(kind, Tail(list))

MasterList(c, kind) == IF kind = "smbus" THEN c.smbus_master_list ELSE c.mdio_master_list

IdPresent_first_only(list, id) == list # <<>> /\ list[1].id = id

(* list_for_each_entry(master, ...) if (master->id == id)                   *)
IdPresent(list, id) == \E i \in 1..Len(list) : list[i].id = id

Done(c, ret, log) == [c EXCEPT !.ret = ret, !.log = log]

(* The master of an add whose first n buses were added.                    *)
NewMaster(kind, line, n, br) ==
    [id |-> line.id, addr |-> line.addr, bus_list |-> [i \in 1..n |-> i - 1],
     br_supported |-> br, speed |-> IF kind = "mdio" THEN line.speed ELSE 0]

Inserted(c, kind, m) ==
    IF kind = "smbus"
    THEN [c EXCEPT !.smbus_master_list = Append(@, m)]
    ELSE [c EXCEPT !.mdio_master_list = Append(@, m)]

(* fail_bus: the master's remove function on a master that was kzalloc'ed  *)
(* and never inserted: list_del of a zeroed list head is undefined; the    *)
(* build either stops the thread there (with the context lock held) or     *)
(* detects the bad entry and goes on to free the master.                   *)
FailBus(c, kind, line, n) ==
    LET m == NewMaster(kind, line, n, FALSE)
        log == PerBus("register", kind, line.id, n)
               \o <<Ev("register_failed", kind, line.id, n)>>
               \o master_remove(kind, m)
               \o <<Ev("list_del_unlinked", kind, line.id, -1)>>
    IN  { [Done(c, -ENOMEM, log) EXCEPT !.oops = TRUE],
          Done(c, -ENOMEM, log \o <<Ev("kfree_master", kind, line.id, -1)>>) }

(* The version field read by scd_smbus_master_add after the reset.         *)
Versions == {1, 2}

master_add_after_reset_any_version(c, kind, line, log) ==
    IF kind = "smbus"
    THEN { Inserted(Done(c, 0, log \o <<Ev("read_cs", kind, line.id, ver),
                                         Ev("list_add", kind, line.id, -1)>>),
                    kind, NewMaster(kind, line, line.bus_count, ver >= 1))
           : ver \in Versions }
    ELSE { Inserted(Done(c, 0, log \o <<Ev("list_add", kind, line.id, -1)>>),
                    kind, NewMaster(kind, line, line.bus_count, FALSE)) }

master_add_after_reset(c, kind, line, log) ==
    IF kind = "smbus"
    THEN { Inserted(Done(c, 0, log \o <<Ev("read_cs", kind, line.id, ver),
                                         Ev("list_add", kind, line.id, -1)>>),
                    kind, NewMaster(kind, line, line.bus_count, ver >= 2))
           : ver \in Versions }
    ELSE { Inserted(Done(c, 0, log \o <<Ev("list_add", kind, line.id, -1)>>),
                    kind, NewMaster(kind, line, line.bus_count, FALSE)) }

(* scd_smbus_master_add / scd_mdio_master_add: the results the call can    *)
(* have, by which kzalloc or bus registration fails and what is read.      *)
master_add(c, kind, line) ==
    IF IdPresent(MasterList(c, kind), line.id)
    THEN { Done(c, -EEXIST, <<>>) }
    ELSE { Done(c, -ENOMEM, <<>>) }
         \cup UNION { FailBus(c, kind, line, n) : n \in 0..(line.bus_count - 1) }
         \cup master_add_after_reset(c, kind, line,
                 PerBus("register", kind, line.id, line.bus_count)
                 \o ResetEv(kind, line.id))

(* PARSE_ADDR_OR_RETURN: the parsed address > Size returns -EINVAL.         *)
PARSE_ADDR_OR_RETURN(addr, size) == addr > size

(* parse_new_object_smbus_master / parse_new_object_mdio_master.           *)
parse_new_object(c, line) ==
    IF PARSE_ADDR_OR_RETURN(line.addr, c.res_size)
    THEN { Done(c, -EINVAL, <<>>) }
    ELSE master_add(c, line.kind, line)

new_object_locked_ignores_initialized(c, line) == parse_new_object(c, line)

(* new_object between scd_lock and scd_unlock.                             *)
new_object_locked(c, line) ==
    IF c.initialized THEN { Done(c, -EBUSY, <<>>) }
    ELSE parse_new_object(c, line)

(* The lines written to new_object: masters 0 and 1 of both kinds with 0   *)
(* or 2 buses inside the window, and master 0 at the end of the window     *)
(* and past it.                                                            *)
OtherOp(name) == [kind |-> name, addr |-> 0, id |-> 0, bus_count |-> 0, speed |-> 0]

ObjectAddrs == {256, ResSize - 1, ResSize, ResSize + 1}

ObjectLines ==
    { [kind |-> k, addr |-> a, id |-> i, bus_count |-> n, speed |-> 1] :
        k \in {"smbus", "mdio"}, a \in {256}, i \in {0, 1}, n \in {0, 2} }
    \cup { [kind |-> k, addr |-> a, id |-> 0, bus_count |-> 0, speed |-> 1] :
             k \in {"smbus", "mdio"}, a \in ObjectAddrs }

(* The context lock can be taken: the device is probed and no thread died  *)
(* holding the lock.                                                       *)
scd_lock_free == ctx.on /\ ~ctx.oops

new_object ==
    /\ scd_lock_free
    /\ Len(ctx.smbus_master_list) < MaxMasters
    /\ Len(ctx.mdio_master_list) < MaxMasters
    /\ \E line \in ObjectLines : \E c \in new_object_locked(ctx, line) :
          ctx' = [c EXCEPT !.op = line]
    /\ UNCHANGED <<th, mutex, mem, dirty, smaster, bparams, env, cr, tgt, md>>

scd_ext_hwmon_finish_init ==
    /\ scd_lock_free
    /\ ctx' = [Done(ctx, 0, <<>>) EXCEPT !.initialized = TRUE, !.op = OtherOp("finish_init")]
    /\ UNCHANGED <<th, mutex, mem, dirty, smaster, bparams, env, cr, tgt, md>>

(* scd_ext_hwmon_remove: scd_smbus_remove_all, scd_mdio_remove_all, then   *)
(* the context is unlinked and freed.                                      *)
scd_ext_hwmon_remove ==
    /\ scd_lock_free
    /\ ctx' = [on |-> FALSE,
               log |-> remove_all("smbus", ctx.smbus_master_list)
                       \o remove_all("mdio", ctx.mdio_master_list)]
    /\ UNCHANGED <<th, mutex, mem, dirty, smaster, bparams, env, cr, tgt, md>>

(* scd_ext_hwmon_probe of a device with a window of ResSize bytes.         *)
scd_ext_hwmon_probe ==
    /\ ~ctx.on
    /\ ctx' = [on |-> TRUE, initialized |-> FALSE, res_size |-> ResSize,
               smbus_master_list |-> <<>>, mdio_master_list |-> <<>>,
               oops |-> FALSE, ret |-> 0, log |-> <<>>, op |-> OtherOp("probe")]
    /\ UNCHANGED <<th, mutex, mem, dirty, smaster, bparams, env, cr, tgt, md>>

InitRegistry ==
    /\ th = <<>>
    /\ smaster = <<>>
    /\ mutex = <<>>
    /\ dirty = <<>>
    /\ mem = <<>>
    /\ bparams = <<>>
    /\ tgt = NoTarget
    /\ cr = [state |-> "unused"]
    /\ env = [faults |-> {}, lens |-> {}, empties |-> {}, busies |-> {}]
    /\ md = NoMdio
    /\ ctx = NoCtx

NextRegistry ==
    \/ scd_ext_hwmon_probe
    \/ new_object
    \/ scd_ext_hwmon_finish_init
    \/ scd_ext_hwmon_remove

SpecRegistry == InitRegistry /\ [][NextRegistry]_vars

(* ---------------------------------------------------------------------- *)
(* Specification of smbus_check_resp alone: every combination of the six   *)
(* error flags, response ids and expected ids 0..MaxTid.                   *)
(* ---------------------------------------------------------------------- *)
MaxTid == 2

Bit == {0, 1}

CheckInputs ==
    { [state |-> "in", tid |-> tid,
       resp |-> [smbus_response_reg EXCEPT !.fe = fe, !.ack_error = ack,
                     !.timeout_error = tmo, !.bus_conflict_error = bc,
                     !.flushed = fl, !.foe = foe, !.ti = ti],
       ret |-> 0, error |-> ""] :
        fe \in Bit, ack \in Bit, tmo \in Bit, bc \in Bit, fl \in Bit, foe \in Bit,
        ti \in 0..MaxTid, tid \in 0..MaxTid }

InitCheck ==
    /\ cr \in CheckInputs
    /\ th = <<>>
    /\ smaster = <<>>
    /\ mutex = <<>>
    /\ dirty = <<>>
    /\ mem = <<>>
    /\ bparams = <<>>
    /\ tgt = NoTarget
    /\ md = NoMdio
    /\ ctx = NoCtx
    /\ env = [faults |-> {}, lens |-> {}, empties |-> {}, busies |-> {}]

(* A call of smbus_check_resp(resp, tid, fail_reason).                     *)
check_resp_call ==
    /\ cr.state = "in"
    /\ LET out == smbus_check_resp(cr.resp, cr.tid) IN
       cr' = [cr EXCEPT !.state = "out", !.ret = out.ret, !.error = out.error]
    /\ UNCHANGED <<th, mutex, mem, dirty, smaster, bparams, env, tgt, md, ctx>>

NextCheck == check_resp_call

SpecCheck == InitCheck /\ [][NextCheck]_vars

(* ====================================================================== *)
(* Claims                                                                  *)
(* ====================================================================== *)

(* C8: smbus_check_resp returns 0 only when none of the seven conditions   *)
(* holds; otherwise it returns -EIO with the reason of the first condition *)
(* that holds in the order fe, ack, timeout, conflict, flush, tid,         *)
(* overflow; the reasons of the seven conditions are pairwise distinct.    *)
ConditionOrder == <<"fe", "ack", "timeout", "conflict", "flush", "tid", "overflow">>

ConditionHolds(resp, tid, k) ==
    CASE k = 1 -> resp.fe = 1
      [] k = 2 -> resp.ack_error = 1
      [] k = 3 -> resp.timeout_error = 1
      [] k = 4 -> resp.bus_conflict_error = 1
      [] k = 5 -> resp.flushed = 1
      [] k = 6 -> resp.ti # tid
      [] k = 7 -> resp.foe = 1

HoldingConditions(resp, tid) == { k \in 1..7 : ConditionHolds(resp, tid, k) }

(* The response in which only condition k holds, for expected id 0.        *)
OnlyCondition(k) ==
    CASE k = 1 -> [smbus_response_reg EXCEPT !.fe = 1]
      [] k = 2 -> [smbus_response_reg EXCEPT !.ack_error = 1]
      [] k = 3 -> [smbus_response_reg EXCEPT !.timeout_error = 1]
      [] k = 4 -> [smbus_response_reg EXCEPT !.bus_conflict_error = 1]
      [] k = 5 -> [smbus_response_reg EXCEPT !.flushed = 1]
      [] k = 6 -> [smbus_response_reg EXCEPT !.ti = 1]
      [] k = 7 -> [smbus_response_reg EXCEPT !.foe = 1]

C8_FirstMatchWins ==
    cr.state = "out" =>
        LET hold == HoldingConditions(cr.resp, cr.tid) IN
        /\ (hold = {}) <=> (cr.ret = 0)
        /\ hold # {} =>
              LET first == CHOOSE k \in hold : \A j \in hold : k <= j IN
              /\ cr.ret = -EIO
              /\ cr.error = ConditionOrder[first]
              /\ cr.error = smbus_check_resp(OnlyCondition(first), 0).error
        /\ \A j, k \in 1..7 :
              j # k => smbus_check_resp(OnlyCondition(j), 0).error
                          # smbus_check_resp(OnlyCondition(k), 0).error

(* A response with a wrong id and the overflow flag, and no earlier        *)
(* condition, was classified as an id mismatch.                            *)
C8_Witness ==
    /\ cr.state = "out"
    /\ HoldingConditions(cr.resp, cr.tid) = {6, 7}
    /\ cr.error = "tid"
    /\ cr.ret = -EIO

(* The request loop of the main sequence of an attempt of thread t is      *)
(* complete: nreq is the number of phases the attempt wrote for it.        *)
Issued(t) ==
    /\ th[t].path = "impl"
    /\ ~th[t].inner
    /\ \/ th[t].pc = "resp"
       \/ th[t].pc = "unlock" /\ th[t].ret = 0

TableSizes == {"QUICK", "BYTE", "BYTE_DATA", "WORD_DATA", "I2C_BLOCK_DATA_MSG",
               "I2C_BLOCK_DATA", "BLOCK_DATA"}

(* The phase count of the table for the shapes other than BLOCK_DATA.      *)
TablePhases(r) ==
    LET w == r.read_write = I2C_SMBUS_WRITE IN
    CASE r.size = "QUICK" -> 1
      [] r.size = "BYTE" -> 2
      [] r.size = "BYTE_DATA" -> IF w THEN 3 ELSE 4
      [] r.size = "WORD_DATA" -> IF w THEN 4 ELSE 5
      [] r.size = "I2C_BLOCK_DATA_MSG" -> IF w THEN 2 + r.data_size ELSE 3 + r.data_size
      [] r.size = "I2C_BLOCK_DATA" -> IF w THEN 2 + Block(r.data, 0) ELSE 3 + Block(r.data, 0)

(* C1 as stated: every accepted shape writes the table's phase count, the  *)
(* length-prefixed block (the shape that has the hardware-assisted read,   *)
(* BLOCK_DATA) 2 + buf[0] for a write and 3 + buf[0] for a read without    *)
(* hardware assist.                                                        *)
C1_TableAsStated ==
    \A t \in Threads :
        (Issued(t) /\ th[t].size \in TableSizes) =>
            th[t].nreq =
                IF th[t].size = "BLOCK_DATA"
                THEN (IF th[t].read_write = I2C_SMBUS_WRITE
                      THEN 2 + Block(th[t].data, 0) ELSE 3 + th[t].blen)
                ELSE TablePhases(th[t])

(* C1 amended: quick 1/1, byte 2/2, byte-data 3/4, word-data 4/5, generic  *)
(* block 2+len / 3+len, I2C block 2+buf[0] / 3+buf[0]; a BLOCK_DATA write  *)
(* writes 3+buf[0] phases, and a BLOCK_DATA read without hardware assist   *)
(* writes the 4 phases of the length probe and then 4+L phases, L being    *)
(* the length byte the probe returned.                                     *)
C1_PhaseCounts ==
    \A t \in Threads :
        (Issued(t) /\ th[t].size \in TableSizes) =>
            IF th[t].size = "BLOCK_DATA"
            THEN IF th[t].read_write = I2C_SMBUS_WRITE
                 THEN th[t].nreq = 3 + Block(th[t].data, 0) /\ th[t].nprobe = 0
                 ELSE th[t].nreq = 4 + th[t].blen /\ th[t].nprobe = 4
            ELSE th[t].nreq = TablePhases(th[t]) /\ th[t].nprobe = 0

(* A BLOCK_DATA write of MidLen bytes has written its 3 + MidLen phases.   *)
C1_Witness ==
    \E t \in Threads :
        /\ Issued(t)
        /\ th[t].size = "BLOCK_DATA"
        /\ th[t].read_write = I2C_SMBUS_WRITE
        /\ Block(th[t].data, 0) = MidLen
        /\ th[t].nreq = 3 + MidLen
        /\ th[t].pc = "unlock"

(* C7 as stated: the id stamped on request phase i is i, also for          *)
(* sequences of more than 16 phases.                                       *)
C7_IdsAsStated ==
    \A t \in Threads :
        \A k \in 1..Len(th[t].stamped) : th[t].stamped[k] = k - 1

(* C7 amended: the id stamped on request phase i is i modulo 16 (the id    *)
(* field has 4 bits): the ids start at 0 and increase by one per phase,    *)
(* wrapping from 15 to 0.  The request register holds the phase written    *)
(* last.                                                                   *)
C7_IdsModulo16 ==
    \A t \in Threads :
        /\ \A k \in 1..Len(th[t].stamped) : th[t].stamped[k] = (k - 1) % 16
        /\ Len(th[t].stamped) = th[t].nreq \/ th[t].stamped = <<>>
        /\ (th[t].pc \in {"req", "resp", "br_req", "br_wait", "br_resp"} /\ th[t].nreq > 0) =>
              mem[ReqOffset(MasterOf(t))].ti = (th[t].nreq - 1) % 16

(* A sequence of more than 16 phases was written: phase 16 carries id 0.   *)
C7_Witness ==
    \E t \in Threads :
        /\ Len(th[t].stamped) >= 17
        /\ th[t].stamped[16] = 15
        /\ th[t].stamped[17] = 0

(* C3 as stated: when every attempt fails with a protocol error the        *)
(* transaction is retried (executed again after its first attempt) exactly *)
(* max_retries times before -EIO is returned.                              *)
C3_RetriedMaxRetriesTimes ==
    \A t \in Threads :
        (th[t].pc = "done" /\ th[t].ret = -EIO) =>
            th[t].attempts - 1 = smaster[MasterOf(t)].max_retries

(* C6: a response whose id differs from the id stamped on the request      *)
(* phase at the same position aborts the attempt with -EIO at that         *)
(* response: its data byte is not stored, and no later response of the     *)
(* attempt is read.                                                        *)
C6_IdMismatchAborts ==
    [][\A t \in Threads :
          /\ ( /\ th[t].pc \in {"resp", "br_resp"}
               /\ th'[t].nresp = th[t].nresp + 1
               /\ th[t].nresp + 1 <= Len(th[t].stamped)
               /\ th'[t].resp.ti # th[t].stamped[th[t].nresp + 1] )
             => ( /\ th'[t].ret = -EIO
                  /\ th'[t].aborted
                  /\ th'[t].pc = "reset1"
                  /\ th'[t].data = th[t].data )
          /\ th[t].aborted =>
                (th'[t].nresp <= th[t].nresp /\ th'[t].data = th[t].data)
      ]_vars

(* The response at a data position of a read carried a wrong id: the       *)
(* attempt is on its fail path.                                            *)
C6_Witness ==
    \E t \in Threads :
        /\ th[t].aborted
        /\ th[t].pc = "reset1"
        /\ th[t].nresp >= 5
        /\ th[t].nresp <= Len(th[t].stamped)
        /\ th[t].resp.ti # th[t].stamped[th[t].nresp]
        /\ th[t].ret = -EIO

(* The block reads, and the length the hardware (or the caller, for the    *)
(* I2C block) makes them return.                                           *)
BlockReadLen(r) ==
    IF r.size = "BLOCK_DATA" THEN r.blen
    ELSE IF r.size = "I2C_BLOCK_DATA" THEN Block(r.data, 0)
    ELSE r.data_size - 1

IsBlockRead(r) ==
    /\ r.read_write = I2C_SMBUS_READ
    /\ r.size \in {"BLOCK_DATA", "I2C_BLOCK_DATA", "I2C_BLOCK_DATA_MSG"}

(* The attempt ended on a capacity check (not on the busy-wait timeout).   *)
CapacityError(r) == r.ret = -EINVAL /\ r.aborted /\ r.nresp > 0

(* The position of the response stored at data->block[j].                  *)
StoredFrom(r, j) == IF r.size = "I2C_BLOCK_DATA" THEN j + 2 ELSE j + 3

(* C9: a block read that would return more bytes than the buffer holds     *)
(* never returns success and never stores past the buffer, and the bytes   *)
(* stored before the capacity check failed stay as written.                *)
C9_CapacityChecked ==
    \A t \in Threads :
        LET r == th[t] IN
        /\ ~r.oob
        /\ (IsBlockRead(r) /\ r.pc \in {"unlock", "done"} /\ r.ret = 0) =>
              BlockReadLen(r) + 1 <= r.data_size
        /\ (IsBlockRead(r) /\ CapacityError(r)) =>
              /\ BlockReadLen(r) + 1 > r.data_size
              /\ \A j \in 1..(r.data_size - 1) :
                    \E g \in Responses(StoredFrom(r, j)) :
                        /\ smbus_check_resp(g, StoredFrom(r, j) % 16).ret = 0
                        /\ Block(r.data, j) = g.d

(* A hardware-assisted block read ended on the capacity check after the    *)
(* buffer was filled.                                                      *)
C9_Witness ==
    \E t \in Threads :
        /\ th[t].pc = "done"
        /\ th[t].path = "br"
        /\ CapacityError(th[t])
        /\ th[t].blen = LongLen
        /\ Block(th[t].data, th[t].data_size - 1) = Pat(th[t].data_size + 2)

(* C10: an attempt that ends with an error other than -EIO ends the        *)
(* transaction: that error is returned and no further attempt is started.  *)
C10_OtherErrorsNotRetried ==
    [][\A t \in Threads :
          /\ (th[t].pc = "unlock" /\ th[t].ret \notin {0, -EIO}) =>
                (th'[t].pc = "done" /\ th'[t].ret = th[t].ret)
          /\ (th[t].pc = "done") => th'[t] = th[t]
          /\ (th'[t].attempts > th[t].attempts /\ th[t].attempts > 0) =>
                th[t].ret = -EIO
      ]_vars

(* The busy-wait timeout of the hardware-assisted block read ended a       *)
(* transaction that had retries left.                                      *)
C10_Witness ==
    \E t \in Threads :
        /\ th[t].pc = "done"
        /\ th[t].ret = -EINVAL
        /\ th[t].path = "br"
        /\ th[t].nresp = 0
        /\ th[t].attempts < smaster[MasterOf(t)].max_retries

(* A thread between taking and releasing the master's mutex.               *)
InAttempt(t) ==
    th[t].pc \in {"impl", "req", "resp", "br_req", "br_wait", "br_resp",
                  "reset1", "reset2", "unlock"}

(* C2: from a response that failed validation until the reset (reset and   *)
(* overflow-clear bits written, then reset cleared) the master stays with  *)
(* the failed attempt, which is on its fail path: no request phase of the  *)
(* next attempt or of another transaction is written before the reset.     *)
C2_ResetBeforeNextRequest ==
    /\ [](\A m \in MasterIds :
             dirty[m] =>
                /\ mutex[m] # 0
                /\ th[mutex[m]].aborted
                /\ th[mutex[m]].pc \in {"reset1", "reset2"})
    /\ [][\A t \in Threads :
             /\ th'[t].nreq # th[t].nreq => ~dirty[MasterOf(t)]
             /\ th'[t].attempts # th[t].attempts => ~dirty[MasterOf(t)]
             /\ (dirty[MasterOf(t)] /\ ~dirty'[MasterOf(t)]) =>
                   /\ mem[CsOffset(MasterOf(t))].reset = 1
                   /\ mem[CsOffset(MasterOf(t))].foe = 1
                   /\ mem'[CsOffset(MasterOf(t))].reset = 0
       ]_vars

(* A response of the hardware-assisted block read failed validation while  *)
(* another transaction waits for the same master.                          *)
C2_Witness ==
    \E t, u \in Threads :
        /\ t # u
        /\ MasterOf(t) = MasterOf(u)
        /\ dirty[MasterOf(t)]
        /\ th[t].path = "br"
        /\ th[t].pc = "reset2"
        /\ th[u].pc = "lock"

(* C4: two transactions on one master are never both inside an attempt:    *)
(* the thread that writes requests and reads responses holds the master's  *)
(* mutex from before its first phase until after its last response or its  *)
(* reset.                                                                  *)
C4_SameMasterSerialized ==
    /\ [](\A t, u \in Threads :
             (t # u /\ MasterOf(t) = MasterOf(u)) => ~(InAttempt(t) /\ InAttempt(u)))
    /\ [][\A t \in Threads :
             (th'[t].nreq # th[t].nreq \/ th'[t].nresp # th[t].nresp
                \/ th'[t].resets # th[t].resets) =>
                   (\A u \in Threads \ {t} :
                       MasterOf(u) = MasterOf(t) => ~InAttempt(u) /\ ~InAttempt(u)')
       ]_vars

(* A transaction on another bus of the same master waits while an attempt  *)
(* is between its requests and its responses.                              *)
C4_Witness ==
    \E t, u \in Threads :
        /\ t # u
        /\ MasterOf(t) = MasterOf(u)
        /\ th[t].bus # th[u].bus
        /\ th[t].pc = "resp"
        /\ th[t].nreq > 0
        /\ th[u].pc = "lock"
        /\ th[u].attempts = 0

(* C5: masters have different mutexes and disjoint register offsets; a     *)
(* transaction waiting for its master's mutex waits only for a transaction *)
(* of the same master; and a step of a transaction leaves the registers,   *)
(* the mutex and the transactions of every other master unchanged.         *)
C5_MastersIndependent ==
    /\ [](/\ \A m, n \in MasterIds :
                m # n => MasterOffsets(m) \cap MasterOffsets(n) = {}
          /\ \A t, u \in Threads :
                MasterOf(t) # MasterOf(u) => LockOf(t) # LockOf(u)
          /\ \A t \in Threads :
                (th[t].pc = "lock"
                   /\ \A u \in Threads : MasterOf(u) = MasterOf(t) => ~InAttempt(u))
                => CanLock(t))
    /\ [][\A t \in Threads :
             th'[t] # th[t] =>
                /\ \A u \in Threads \ {t} : th'[u] = th[u]
                /\ \A m \in MasterIds \ {MasterOf(t)} :
                      /\ mutex'[m] = mutex[m]
                      /\ dirty'[m] = dirty[m]
                      /\ \A o \in MasterOffsets(m) \cap DOMAIN mem : mem'[o] = mem[o]
       ]_vars

(* Attempts on two masters are in progress at the same time, each between  *)
(* its requests and its responses.                                         *)
C5_Witness ==
    \E t, u \in Threads :
        /\ MasterOf(t) # MasterOf(u)
        /\ InAttempt(t) /\ th[t].nreq > 0 /\ th[t].pc \in {"resp", "br_wait", "br_resp"}
        /\ InAttempt(u) /\ th[u].nreq > 0 /\ th[u].pc = "resp"

(* The transfer shapes scd_smbus_do_impl has a case for.                   *)
SupportedSizes ==
    {"QUICK", "BYTE", "BYTE_DATA", "WORD_DATA", "I2C_BLOCK_DATA_MSG",
     "I2C_BLOCK_DATA", "BLOCK_DATA"}

(* C11 as stated: a transaction of an unsupported size class makes no      *)
(* register access, is attempted once and never returns success.           *)
C11_UnsupportedRejected ==
    \A t \in Threads :
        (th[t].size \notin SupportedSizes /\ th[t].pc = "done") =>
            /\ th[t].nreq = 0
            /\ th[t].nresp = 0
            /\ th[t].attempts = 1
            /\ th[t].ret # 0

(* The parameter set in force for addr on a bus: the override entry of the *)
(* address, else the baseline (timing class 1, data widths 3, early-data   *)
(* 0).                                                                     *)
Baseline == [t |-> 1, datw |-> 3, datr |-> 3, ed |-> 0]

InForce(list, addr) ==
    IF \E k \in 1..Len(list) : list[k].addr = addr
    THEN LET e == list[CHOOSE k \in 1..Len(list) : list[k].addr = addr] IN
         [t |-> e.t, datw |-> e.datw, datr |-> e.datr, ed |-> e.ed]
    ELSE Baseline

(* Thread t writes a request phase in this step, and no override of its    *)
(* bus was set since the attempt looked its parameters up.                 *)
WritesPhase(t) ==
    /\ th[t].pc \in {"req", "br_req"}
    /\ th'[t].nreq = th[t].nreq + 1
    /\ th[t].pseen = bparams[th[t].bus]

LastPhase(t) == th[t].i = th[t].ss - 1

Width(r, p) == IF EffRW(r) = I2C_SMBUS_WRITE THEN p.datw ELSE p.datr

(* C12 as stated: every phase carries the timing class in force for the    *)
(* address and the last phase its early-data flag and data width.          *)
C12_ParamsAsStated ==
    [][\A t \in Threads :
          WritesPhase(t) =>
             LET p == InForce(bparams[th[t].bus], th[t].addr)
                 q == mem'[ReqOffset(MasterOf(t))]
             IN
             /\ q.t = p.t
             /\ LastPhase(t) => (q.ed = p.ed /\ q.dat = Width(th[t], p))
      ]_vars

(* C12, amended: every phase carries the timing class in force for the     *)
(* address modulo 4; the last phase of a sequence of scd_smbus_do_impl     *)
(* carries the early-data flag modulo 2 and the data width of its          *)
(* direction modulo 4, and the phases before it carry 0 in both; the       *)
(* phases of the hardware-assisted block read carry 0 in both.  An address *)
(* with no override gets the baseline whatever other overrides exist.      *)
C12_ParamsInPhases ==
    [][\A t \in Threads :
          WritesPhase(t) =>
             LET p == InForce(bparams[th[t].bus], th[t].addr)
                 q == mem'[ReqOffset(MasterOf(t))]
             IN
             /\ q.t = p.t % 4
             /\ (th[t].pc = "req" /\ LastPhase(t)) =>
                    (q.ed = p.ed % 2 /\ q.dat = Width(th[t], p) % 4)
             /\ (th[t].pc = "br_req" \/ ~LastPhase(t)) => (q.ed = 0 /\ q.dat = 0)
      ]_vars

(* The last phase of a byte-data read of address 80 was written with the   *)
(* values of the override of 80, the second entry of a list whose first    *)
(* entry is the override of address 81.                                    *)
C12_Witness ==
    \E t \in Threads :
        LET list == bparams[th[t].bus]
            q == mem[ReqOffset(MasterOf(t))]
        IN
        /\ th[t].pc = "resp"
        /\ th[t].nresp = 0
        /\ th[t].pseen = list
        /\ th[t].size = "BYTE_DATA"
        /\ th[t].addr = 80
        /\ th[t].read_write = I2C_SMBUS_READ
        /\ Len(list) = 2 /\ list[1].addr = 81 /\ list[2].addr = 80 /\ list[2].t = 2
        /\ q.t = 2 /\ q.dat = 2 /\ q.ed = 1

(* Some bus's list changes in this step.                                   *)
SetChanges(b) == bparams'[b] # bparams[b]

(* C13: every bus holds at most one override per address; a set changes    *)
(* the list of one bus only, and there either replaces the values of the   *)
(* entry of its address, the length and the other entries staying as they  *)
(* are, or, when the address has no entry, appends one.                    *)
C13_OneEntryPerAddress ==
    /\ [](\A b \in DOMAIN bparams :
             \A j, k \in 1..Len(bparams[b]) :
                 bparams[b][j].addr = bparams[b][k].addr => j = k)
    /\ [][\A b \in DOMAIN bparams :
             SetChanges(b) =>
                /\ \A c \in DOMAIN bparams \ {b} : ~SetChanges(c)
                /\ \/ /\ Len(bparams'[b]) = Len(bparams[b])
                      /\ \E k \in 1..Len(bparams[b]) :
                            /\ bparams'[b][k].addr = bparams[b][k].addr
                            /\ \A j \in 1..Len(bparams[b]) :
                                  j # k => bparams'[b][j] = bparams[b][j]
                   \/ /\ Len(bparams'[b]) = Len(bparams[b]) + 1
                      /\ SubSeq(bparams'[b], 1, Len(bparams[b])) = bparams[b]
                      /\ \A k \in 1..Len(bparams[b]) :
                            bparams[b][k].addr # bparams'[b][Len(bparams'[b])].addr
       ]_vars

(* Bus 0 holds one entry for each of the two addresses, the second with    *)
(* values other than those it was created with (it was set twice), and bus *)
(* 1 holds its own entry.                                                  *)
C13_Witness ==
    /\ Len(bparams[<<0, 0>>]) = 2
    /\ bparams[<<0, 0>>][1].addr = 80
    /\ bparams[<<0, 0>>][2].addr = 81
    /\ bparams[<<0, 0>>][1].t # bparams[<<0, 0>>][2].t
    /\ Len(bparams[<<0, 1>>]) = 1
    /\ cr.state = "set"
    /\ cr.ret = 0

(* C14: on a master without hardware block read and against the storing    *)
(* target, a length-prefixed block write of N bytes returns success and    *)
(* the block read of the same address and command that follows returns     *)
(* success with block[0] = N and block[1..N] the bytes written, in order.   *)
C14_BlockRoundTrip ==
    \A t \in Threads :
        (cr.state = "reading" /\ th[t].pc = "done") =>
            /\ cr.wret = 0
            /\ th[t].ret = 0
            /\ \A k \in 0..Block(cr.written, 0) :
                  Block(th[t].data, k) = Block(cr.written, k)

(* The read-back of a block of MaxBlock bytes that are not all equal       *)
(* returned.                                                               *)
C14_Witness ==
    \E t \in Threads :
        /\ cr.state = "reading"
        /\ th[t].pc = "done"
        /\ th[t].read_write = I2C_SMBUS_READ
        /\ Block(cr.written, 0) = MaxBlock
        /\ Block(cr.written, 1) # Block(cr.written, MaxBlock)
        /\ Block(th[t].data, MaxBlock) = Block(cr.written, MaxBlock)
        /\ th[t].nprobe = 4

(* A caller of scd_mii_bus_do between mdio_master_lock and the return.     *)
InOperation(t) == md.th[t].pc \notin {"call", "done"}

HiWritten(t) == md.th[t].pc = "hi" /\ md'.th[t].pc = "wait"

(* C15: each logical MDIO read or write issues the set-address request     *)
(* (operation SET, payload the register number) and then the operate       *)
(* request, in that order, while the caller holds the master's lock: no    *)
(* other caller is inside an operation of the master meanwhile, so none of *)
(* their requests comes between the two, and the lock is released on       *)
(* every return, the one after a failed set-address request included.      *)
C15_SetThenOperateUnderLock ==
    /\ [](\A t \in MdioThreads :
            /\ InOperation(t) => md.mutex = t
            /\ md.th[t].pc = "done" => md.mutex # t
            /\ md.th[t].phase = "op" => md.th[t].nreq \in {1, 2}
            /\ md.th[t].phase = "set" => md.th[t].nreq \in {0, 1})
    /\ [][\A t \in MdioThreads :
            HiWritten(t) =>
              /\ md.req_lo.bs = md.th[t].bus
              /\ md.req_lo.pa = md.th[t].prtad
              /\ md.req_lo.dt = md.th[t].devad
              /\ md.th[t].nreq = 0 =>
                    md.req_lo.op = "SET" /\ md.req_lo.d = md.th[t].regnum
              /\ md.th[t].nreq = 1 =>
                    md.req_lo.op = md.th[t].op /\ md.req_lo.d = md.th[t].val
              /\ \A u \in MdioThreads \ {t} : ~InOperation(u)]_vars

(* One caller returned after both requests, the other after a failed       *)
(* set-address request, and the lock is free.                              *)
C15_Witness ==
    /\ md.on
    /\ md.hw = "any"
    /\ \E t, u \in MdioThreads :
         /\ md.th[t].pc = "done" /\ md.th[t].nreq = 2
         /\ md.th[u].pc = "done" /\ md.th[u].phase = "set" /\ md.th[u].ret < 0
    /\ md.mutex = 0

(* C16: against a PHY that stores written values per port, device and      *)
(* register and answers every request with result count 1, transaction     *)
(* started and no framing error, a write of v followed by a read of the    *)
(* same port, device and register returns v.                               *)
C16_WriteThenRead ==
    md.on /\ md.hw = "phy" /\ md.written # -1 /\ md.th[1].pc = "done"
       => md.th[1].ret = md.written

C16_Witness ==
    /\ md.on /\ md.hw = "phy"
    /\ md.written = 4660
    /\ md.th[1].pc = "done" /\ md.th[1].op = "READ" /\ md.th[1].ret = 4660
    /\ md.th[2].pc = "done" /\ md.th[2].bus = 0

(* C17: a result count that is neither 0 nor 1, read while waiting for a   *)
(* request, fails the request at once with -EOPNOTSUPP: no further poll,   *)
(* no further request of the logical operation (no retry, and after a      *)
(* failed set-address request no operate request), only the unlock and     *)
(* the return of the error.                                                *)
C17_OtherCountFailsAtOnce ==
    \A t \in MdioThreads :
       LET r == md.th[t] IN
       md.on /\ r.rc \notin {-1, 0, 1} =>
          /\ r.pc \in {"unlock", "done"}
          /\ r.err = -EOPNOTSUPP
          /\ r.pc = "done" => r.ret = -EOPNOTSUPP
          /\ r.tr[Len(r.tr)] = "csX"
          /\ r.nreq = IF r.phase = "set" THEN 1 ELSE 2

(* A caller returned after result count 2 on its set-address request.      *)
C17_Witness ==
    /\ md.on
    /\ \E t \in MdioThreads :
         /\ md.th[t].rc = 2 /\ md.th[t].pc = "done" /\ md.th[t].phase = "set"
         /\ md.th[t].nreq = 1 /\ md.th[t].ret = -EOPNOTSUPP

(* The register accesses of one physical request, in the order made.       *)
TraceOk(tr) ==
    /\ Len(tr) >= 1 => tr[1] = "irq"
    /\ Len(tr) >= 2 => tr[2] = "lo"
    /\ Len(tr) >= 3 => tr[3] = "hi"
    /\ \A i \in 4..Len(tr) :
         CASE tr[i] \in {"cs0", "cs1", "csX", "end"} -> tr[i-1] \in {"hi", "cs0"}
           [] tr[i] = "irq" -> tr[i-1] = "cs1"
           [] tr[i] = "resp" -> tr[i-1] = "irq"
           [] OTHER -> FALSE

(* C18: for each physical MDIO request the completion-interrupt latch is   *)
(* cleared before the low and high request registers are written, low      *)
(* before high; the high register carries a request id one greater, modulo *)
(* 256, than that of the master's previous physical request; after result  *)
(* count 1 the latch is cleared again before the response register is      *)
(* read.                                                                   *)
C18_RequestSequence ==
    /\ [](md.on => \A t \in MdioThreads : TraceOk(md.th[t].tr))
    /\ [][\A t \in MdioThreads :
            HiWritten(t) =>
              /\ md.cs = [get_default_mdio_cs EXCEPT !.fe = 1]
              /\ md'.th[t].ri = md'.req_hi.ri
              /\ md.nphys > 0 => md'.req_hi.ri = (md.req_hi.ri + 1) % 256]_vars

(* A request whose id wrapped from 255 to 0 was polled twice and its       *)
(* response read.                                                          *)
C18_Witness ==
    /\ md.on
    /\ md.req_hi.ri = 0 /\ md.nphys = 257
    /\ \E t \in MdioThreads :
         /\ md.th[t].ri = 0
         /\ md.th[t].tr = <<"irq", "lo", "hi", "cs0", "cs1", "irq", "resp">>

RespRead(t) == md.th[t].pc = "resp" /\ md'.th[t].pc # "resp"

(* C19: once a request is ready, the response read decides: transaction    *)
(* started not 1 or framing error 1 gives -EIO; otherwise a read gives the *)
(* data field of the response and a write or set-address request gives 0.  *)
(* The data of a successful read is never negative, so it is never taken   *)
(* for an error.                                                           *)
C19_ResponseDecides ==
    [][\A t \in MdioThreads :
         RespRead(t) =>
           LET r == md.th[t]
               n == md'.th[t]
               resp == md'.resp
           IN  IF resp.ts # 1 \/ resp.fe = 1
               THEN n.pc = "unlock" /\ n.err = -EIO
               ELSE CASE r.phase = "set" ->
                           n.pc = "irq" /\ n.phase = "op" /\ n.err = 0
                      [] r.phase = "op" /\ r.op = "READ" ->
                           n.pc = "unlock" /\ n.err = resp.d /\ n.err >= 0
                      [] OTHER -> n.pc = "unlock" /\ n.err = 0]_vars

(* A read returned the largest data value, another call returned -EIO.     *)
C19_Witness ==
    /\ md.on
    /\ \E t, u \in MdioThreads :
         /\ md.th[t].pc = "done" /\ md.th[t].op = "READ" /\ md.th[t].phase = "op"
         /\ md.th[t].ret = 65535
         /\ md.th[u].pc = "done" /\ md.th[u].ret = -EIO
         /\ md.th[u].tr[Len(md.th[u].tr)] = "resp"

MdioCallers == {1, 2}

(* C20: mdio_master_wait_response always terminates. A poll that leaves    *)
(* the caller waiting has raised the delay; once the delay is past the     *)
(* budget the call returns -EAGAIN; so a caller that waits stops waiting,  *)
(* returns and no longer holds the master lock, whatever the hardware      *)
(* answers.                                                                *)
C20_WaitTerminates ==
    /\ [][\A t \in MdioCallers :
            md.th[t].pc = "wait" /\ md'.th[t] # md.th[t] =>
               IF MDIO_WAIT_END(md.th[t].delay)
               THEN md'.th[t].pc = "unlock" /\ md'.th[t].err = -EAGAIN
               ELSE md'.th[t].pc = "wait" => md'.th[t].delay > md.th[t].delay]_vars
    /\ \A t \in MdioCallers :
          (md.th[t].pc = "wait") ~> (md.th[t].pc = "done" /\ md.mutex # t)

(* The budget ran out after busy-waits and sleeps: the caller is about to  *)
(* return the timeout error.                                               *)
C20_Witness ==
    /\ md.on
    /\ \E t \in MdioThreads :
         /\ md.th[t].pc = "unlock" /\ md.th[t].err = -EAGAIN
         /\ md.th[t].slept /\ MDIO_WAIT_END(md.th[t].delay)
         /\ md.th[t].tr = <<"irq", "lo", "hi", "cs0", "cs0", "cs0", "cs0", "end">>

(* A step of new_object, and the line it was given.                        *)
NewObjectStep == ctx.on /\ ctx'.on /\ ctx' # ctx /\ ctx'.op.kind \in {"smbus", "mdio"}

UniqueIds(list) ==
    \A i, j \in 1..Len(list) : i # j => list[i].id # list[j].id

Masters(c) == <<c.smbus_master_list, c.mdio_master_list>>

(* C21: no two masters of one kind in a context have the same id, after    *)
(* any sequence of adds and removes; an add of an id that is present       *)
(* returns -EEXIST, leaves both lists as they were and does nothing to the *)
(* bus frameworks, the memory or the hardware (no reset).                  *)
C21_UniqueMasterIds ==
    /\ [](ctx.on => UniqueIds(ctx.smbus_master_list) /\ UniqueIds(ctx.mdio_master_list))
    /\ [][NewObjectStep /\ ~ctx.initialized
          /\ ~PARSE_ADDR_OR_RETURN(ctx'.op.addr, ctx.res_size)
          /\ IdPresent(MasterList(ctx, ctx'.op.kind), ctx'.op.id)
          => /\ ctx'.ret = -EEXIST
             /\ Masters(ctx') = Masters(ctx)
             /\ ctx'.log = <<>>]_vars

(* An MDIO add was refused as a duplicate with two masters of each kind.   *)
C21_Witness ==
    /\ ctx.on
    /\ ctx.ret = -EEXIST /\ ctx.op.kind = "mdio" /\ ctx.op.id = 1
    /\ Len(ctx.smbus_master_list) = 2 /\ Len(ctx.mdio_master_list) = 2
    /\ ctx.log = <<>>

(* The positions in the last handler's log of the events e of one master.  *)
EvIdx(e, kind, id) ==
    { i \in 1..Len(ctx.log) :
        ctx.log[i].ev \in e /\ ctx.log[i].kind = kind /\ ctx.log[i].id = id }

(* C22: when a master of either kind is destroyed, all its bus adapters    *)
(* are unregistered from the bus framework, then the hardware is reset,    *)
(* then the buses and the master are unlinked and freed; no reset of the   *)
(* master precedes the unregistration of any of its buses.                 *)
C22_DestroyOrder ==
    \A kind \in {"smbus", "mdio"}, id \in {0, 1} :
       \A r \in EvIdx({"reset"}, kind, id) :
          /\ \A u \in EvIdx({"unregister"}, kind, id) : u < r
          /\ \A f \in EvIdx({"kfree_bus", "list_del", "list_del_unlinked",
                             "kfree_master"}, kind, id) : r < f

(* new_object has just added an SMBus master.                              *)
SmbusAdded == ctx.on /\ ctx.op.kind = "smbus" /\ ctx.ret = 0

LastMaster(list) == list[Len(list)]

(* C23: on a successful add of an SMBus master the hardware is reset       *)
(* exactly once, before the master is put in the context's list; the       *)
(* block-read flag is (version >= 2) for the version read after that reset *)
(* and before the insertion; the buses have ids 0..bus_count-1 in creation *)
(* order.                                                                  *)
C23_SmbusAddOrder ==
    SmbusAdded =>
       LET n == ctx.op.bus_count
           m == LastMaster(ctx.smbus_master_list)
           resets == EvIdx({"reset"}, "smbus", ctx.op.id)
           reads == EvIdx({"read_cs"}, "smbus", ctx.op.id)
           adds == EvIdx({"list_add"}, "smbus", ctx.op.id)
       IN  /\ Cardinality(resets) = 1 /\ Cardinality(reads) = 1
           /\ adds = {Len(ctx.log)}
           /\ \A r \in resets, c \in reads, a \in adds :
                 /\ r < c /\ c < a
                 /\ m.br_supported = (ctx.log[c].arg >= 2)
           /\ m.id = ctx.op.id
           /\ m.bus_list = [i \in 1..n |-> i - 1]
           /\ \A i \in 1..n : ctx.log[i] = Ev("register", "smbus", m.id, i - 1)

(* A second SMBus master with two buses was added on hardware of version   *)
(* 2, after one of version 1.                                              *)
C23_Witness ==
    /\ SmbusAdded
    /\ Len(ctx.smbus_master_list) = 2
    /\ ctx.op.bus_count = 2
    /\ LastMaster(ctx.smbus_master_list).br_supported
    /\ ~ctx.smbus_master_list[1].br_supported

(* The masters and buses of a context, as <<kind, master id>> and          *)
(* <<kind, master id, bus id>>.                                            *)
Objects(c) ==
    LET of(kind, list) ==
          { <<kind, list[i].id>> : i \in 1..Len(list) }
          \cup UNION { { <<kind, list[i].id, list[i].bus_list[j]>> :
                           j \in 1..Len(list[i].bus_list) } : i \in 1..Len(list) }
    IN  IF c.on THEN of("smbus", c.smbus_master_list) \cup of("mdio", c.mdio_master_list)
        ELSE {}

(* C24: once finish_init has marked the context initialized, every         *)
(* new_object request returns -EBUSY and creates nothing (no registration, *)
(* allocation or register access); from then on the masters and buses of  *)
(* the context never grow.                                                 *)
C24_ReadOnlyAfterInit ==
    [][ctx.on /\ ctx.initialized =>
         /\ ctx'.on => ctx'.initialized
         /\ Objects(ctx') \subseteq Objects(ctx)
         /\ NewObjectStep => ctx'.ret = -EBUSY /\ ctx'.log = <<>>
                             /\ Masters(ctx') = Masters(ctx)]_vars

(* An smbus_master line for a new id was refused after finish_init.        *)
C24_Witness ==
    /\ ctx.on /\ ctx.initialized
    /\ ctx.ret = -EBUSY
    /\ ctx.op.kind = "smbus" /\ ctx.op.id = 1 /\ ctx.op.addr = 256
    /\ ~IdPresent(ctx.smbus_master_list, 1)
    /\ Len(ctx.smbus_master_list) = 1

(* C25: an add of a master whose base address is outside the register      *)
(* window (base address >= window size) is rejected with an error before   *)
(* any object is created or any register accessed; no master exists whose  *)
(* base address is not a valid offset of the window.                       *)
C25_AddressInWindow ==
    ctx.on =>
       /\ \A i \in 1..Len(ctx.smbus_master_list) :
             ctx.smbus_master_list[i].addr < ctx.res_size
       /\ \A i \in 1..Len(ctx.mdio_master_list) :
             ctx.mdio_master_list[i].addr < ctx.res_size
       /\ ctx.op.kind \in {"smbus", "mdio"} /\ ctx.op.addr >= ctx.res_size
             => ctx.ret < 0 /\ ctx.log = <<>>

IsBlockDataRead(r) == r.size = "BLOCK_DATA" /\ r.read_write = I2C_SMBUS_READ

(* The nested byte-data read has just returned 0 to the outer call.        *)
ProbeDone(t) == th[t].inner /\ ~th'[t].inner /\ th'[t].pc = "req"

(* C26: a BLOCK_DATA read takes the hardware-assisted path exactly when    *)
(* the master's br_supported flag is set. Without the flag a byte-data     *)
(* read of the same address and command (4 phases, 4 validated responses)  *)
(* runs first under the same holding of the master lock, the main sequence *)
(* has 4 + (the byte it returned) phases, and when the probe fails no      *)
(* phase of the main sequence is written.                                  *)
C26_ProbeOrBlockRead ==
    /\ [](\A t \in Threads :
            LET r == th[t]
                m == MasterOf(t)
                running == r.pc \in {"req", "resp", "br_req", "br_wait", "br_resp",
                                     "reset1", "reset2", "unlock"}
            IN  /\ r.path = "br" => IsBlockDataRead(r) /\ smaster[m].br_supported
                /\ IsBlockDataRead(r) /\ r.path = "impl" => ~smaster[m].br_supported
                /\ IsBlockDataRead(r) /\ running => mutex[m] = t
                /\ IsBlockDataRead(r) /\ r.path = "impl" /\ r.inner =>
                      r.ss = 4 /\ r.blen = -1 /\ r.nreq = r.nprobe
                /\ IsBlockDataRead(r) /\ r.path = "impl" /\ r.blen = -1 =>
                      r.nreq = r.nprobe /\ r.nreq <= 4
                /\ IsBlockDataRead(r) /\ r.path = "impl" /\ ~r.inner
                   /\ r.pc \in {"req", "resp"} =>
                      r.blen >= 0 /\ r.ss = 4 + r.blen /\ r.nprobe = 4)
    /\ [][\A t \in Threads :
            ProbeDone(t) =>
               /\ th[t].i = 3 /\ th[t].nresp = 3 /\ th[t].nprobe = 4
               /\ th'[t].blen = th'[t].resp.d
               /\ th'[t].ss = 4 + th'[t].resp.d
               /\ th'[t].nreq = 0
               /\ mutex' = mutex /\ mutex[MasterOf(t)] = t]_vars

(* Without the flag: the probe returned MidLen and the last phase of the   *)
(* main sequence has been written.                                         *)
C26_Witness ==
    \E t \in Threads :
       /\ IsBlockDataRead(th[t]) /\ ~smaster[MasterOf(t)].br_supported
       /\ th[t].pc = "resp" /\ ~th[t].inner
       /\ th[t].nprobe = 4 /\ th[t].blen = MidLen /\ th[t].nreq = 4 + MidLen

(* The override's timing class of the transfer thread t is running.        *)
TimingClass(t) == ParamsAt(bparams[th[t].bus], th[t].params).t

Budget(class) ==
    CASE class = 0 -> 5 [] class = 1 -> 40 [] class = 2 -> 505 [] class = 3 -> 1005
      [] OTHER -> 100

BlockReadWaited(t) == th[t].pc = "br_wait" /\ th'[t].pc # "br_wait"

(* C27: the busy wait of the hardware-assisted block read sleeps in steps  *)
(* of 1 ms for at most t steps, t being 5, 40, 505 or 1005 for the timing  *)
(* classes 0..3 and 100 for any other class.  When the budget is used up   *)
(* the transfer returns an error and no response register is read; the     *)
(* responses are read only after a wait that ended within the budget.      *)
C27_BusyWaitBudget ==
    [][\A t \in Threads :
         /\ BlockReadWaited(t) =>
              /\ SMBUS_BLOCK_READ_TIMEOUT_STEP = 1
              /\ th'[t].polls \in 0..Budget(TimingClass(t))
              /\ th'[t].nresp = 0
              /\ IF th'[t].polls = Budget(TimingClass(t))
                 THEN /\ th'[t].ret = -EINVAL
                      /\ th'[t].aborted
                      /\ th'[t].pc = "reset1"
                 ELSE th'[t].pc = "br_resp" /\ ~th'[t].aborted
         /\ th[t].path = "br" /\ th'[t].nresp # th[t].nresp /\ th'[t].nresp # 0 =>
              th[t].pc = "br_resp"
         /\ th[t].pc # "br_resp" /\ th'[t].pc = "br_resp" => BlockReadWaited(t)]_vars

(* A class above 3: the bit stayed set for the 100 steps, the transfer     *)
(* failed and no response was read.                                        *)
C27_Witness ==
    \E t \in Threads :
       /\ th[t].path = "br" /\ TimingClass(t) = 4
       /\ th[t].pc = "reset1" /\ th[t].polls = 100
       /\ th[t].ret = -EINVAL /\ th[t].nresp = 0

(* Thread t ran one iteration of a response loop.                          *)
ResponseRead(t) == th[t].pc \in {"resp", "br_resp"} /\ th'[t] # th[t]

(* C28: before a response is read the fifo-size field is read at most 20   *)
(* times, with a 10 ms sleep between two reads, while it is zero; the      *)
(* response register is then read exactly once whether or not the fifo     *)
(* filled, and a read fails only on the content of the response (or a      *)
(* buffer too short for it), never on the empty fifo alone.                *)
C28_FifoPollBounded ==
    [][\A t \in Threads :
         ResponseRead(t) =>
            LET chk == smbus_check_resp(th'[t].resp, th[t].req.ti) IN
            /\ th'[t].polls \in 1..20
            /\ th'[t].fifo_empty => th'[t].polls = 20
            /\ IF ProbeDone(t) THEN th[t].nresp = 3 /\ th'[t].nresp = 0
               ELSE th'[t].nresp = th[t].nresp + 1
            /\ th'[t].aborted =>
                  \/ chk.ret # 0 /\ th'[t].ret = chk.ret
                  \/ chk.ret = 0 /\ th'[t].ret = -EINVAL /\ th[t].i >= 3
            /\ ~th'[t].aborted => chk.ret = 0]_vars

(* The fifo was still empty after the 20th check, the response was read    *)
(* and the transfer succeeded.                                             *)
C28_Witness ==
    \E t \in Threads :
       /\ th[t].pc = "unlock" /\ th[t].ret = 0 /\ ~th[t].aborted
       /\ th[t].fifo_empty /\ th[t].polls = FIFO_RETRIES /\ th[t].nresp >= 1

(* Thread t wrote one phase in the loop of scd_smbus_do_impl.              *)
PhaseWritten(t) == th[t].pc = "req" /\ th'[t].nreq = th[t].nreq + 1

(* C29: in the ss phases written by scd_smbus_do_impl the stop marker is   *)
(* set on phase ss - 1 and on no other; the start marker is set on phase   *)
(* 0, on phase 2 of a read of more than 2 phases, and on no other; the     *)
(* data-width and early-data fields are nonzero on the last phase only.    *)
C29_PhaseMarkers ==
    [][\A t \in Threads :
         PhaseWritten(t) =>
            LET q == mem'[ReqOffset(MasterOf(t))]
                i == th[t].i
                ss == th[t].ss
            IN  /\ i \in 0..(ss - 1)
                /\ q.sp = 1 <=> i = ss - 1
                /\ q.st = 1 <=> (i = 0 \/ (i = 2 /\ EffRW(th[t]) = I2C_SMBUS_READ /\ ss > 2))
                /\ q.dat # 0 \/ q.ed # 0 => i = ss - 1]_vars

(* A write of more than three phases under an override with early data:    *)
(* its phase 2 is in the register, without start or stop marker, and later *)
(* its last phase with the stop marker and the early-data flag.            *)
C29_Witness ==
    \E t \in Threads :
       LET q == mem[ReqOffset(MasterOf(t))] IN
       /\ th[t].path = "impl" /\ th[t].read_write = I2C_SMBUS_WRITE
       /\ th[t].ss > 3 /\ th[t].pc = "resp" /\ th[t].nreq = th[t].ss
       /\ q.sp = 1 /\ q.st = 0 /\ q.ed = 1 /\ q.dat # 0

(* Thread t wrote one request phase, in the loop of scd_smbus_do_impl or   *)
(* of scd_smbus_block_read.                                                *)
AnyPhaseWritten(t) ==
    th[t].pc \in {"req", "br_req"} /\ th'[t].nreq = th[t].nreq + 1

(* C30 as stated: the da bit of every written phase is                     *)
(* NOT(early-data flag OR stop flag) of the phase.                         *)
C30_DaFromEarlyData ==
    [][\A t \in Threads :
         AnyPhaseWritten(t) =>
            LET q == mem'[ReqOffset(MasterOf(t))] IN
            q.da = Bool2Int(~(q.ed # 0 \/ q.sp # 0))]_vars

(* C30, amended: the da bit of every written phase is NOT(dod flag OR stop *)
(* flag) of the phase, dod being the request field that is set before the  *)
(* loop and cleared on phase 3 of a read and on phase 1 of a two-phase     *)
(* read.                                                                   *)
C30_DaFromDodAndStop ==
    [][\A t \in Threads :
         AnyPhaseWritten(t) =>
            LET q == mem'[ReqOffset(MasterOf(t))] IN
            q.da = Bool2Int(~(q.dod # 0 \/ q.sp # 0))]_vars

(* Phase 3 of a longer read under an override: dod and stop clear, so da   *)
(* is set, and the early-data flag is clear as on every phase but the last.*)
C30_Witness ==
    \E t \in Threads :
       LET q == mem[ReqOffset(MasterOf(t))] IN
       /\ th[t].path = "impl" /\ th[t].pc = "req" /\ th[t].i = 4 /\ th[t].ss > 5
       /\ th[t].nreq = 4
       /\ q.da = 1 /\ q.dod = 0 /\ q.sp = 0 /\ q.ed = 0

(* Thread t stored the data byte of a response of the block read.          *)
BlockReadStored(t) ==
    /\ th[t].pc = "br_resp" /\ th[t].i >= 3
    /\ th'[t].nresp = th[t].nresp + 1 /\ ~th'[t].aborted

(* C31: a hardware-assisted block read writes exactly 3 request phases;    *)
(* when it succeeds it has read exactly 4 + L responses, L being the data  *)
(* byte of response 3; the data byte of response i >= 3 is stored at index *)
(* i - 3 of the buffer, so index 0 holds L and indexes 1..L the bytes of   *)
(* responses 4..3 + L in order.                                            *)
C31_BlockReadShape ==
    /\ [](\A t \in Threads :
            LET r == th[t] IN
            r.path = "br" =>
               /\ r.nreq <= 3
               /\ r.pc \in {"br_wait", "br_resp"} => r.nreq = 3
               /\ r.pc = "unlock" /\ r.ret = 0 =>
                     /\ r.nreq = 3
                     /\ r.nresp = 4 + r.blen
                     /\ Block(r.data, 0) = r.blen
                     /\ \A k \in 1..r.blen : Block(r.data, k) = Pat(3 + k))
    /\ [][\A t \in Threads :
            BlockReadStored(t) =>
               /\ Block(th'[t].data, th[t].i - 3) = th'[t].resp.d
               /\ \A k \in 0..(Len(th[t].data) - 1) :
                     k # th[t].i - 3 => Block(th'[t].data, k) = Block(th[t].data, k)
               /\ th[t].i = 3 => th'[t].blen = th'[t].resp.d]_vars

(* A block read of MidLen bytes succeeded.                                 *)
C31_Witness ==
    \E t \in Threads :
       /\ th[t].path = "br" /\ th[t].pc = "unlock" /\ th[t].ret = 0
       /\ th[t].blen = MidLen /\ th[t].nresp = 4 + MidLen /\ th[t].nreq = 3
       /\ Block(th[t].data, MidLen) = Pat(3 + MidLen)

AttemptsAllowed(max_retries) == IF max_retries > 1 THEN max_retries ELSE 1

ResetPending(t) == th[t].aborted /\ th[t].pc \in {"reset1", "reset2"}

(* C33: a failed attempt holds the master's mutex until its reset is       *)
(* complete: from the failure to the end of the reset no other transaction *)
(* of that master writes a request, reads a response or takes the mutex,   *)
(* and the mutex is released only after the reset bit was cleared.         *)
C33_ResetUnderLock ==
    /\ [](\A t \in Threads : ResetPending(t) => mutex[MasterOf(t)] = t)
    /\ [][\A t \in Threads :
            /\ ResetPending(t) =>
                 /\ mutex'[MasterOf(t)] = t
                 /\ \A u \in Threads \ {t} :
                       MasterOf(u) = MasterOf(t) =>
                          /\ th'[u].nreq = th[u].nreq
                          /\ th'[u].nresp = th[u].nresp
                          /\ th'[u].attempts = th[u].attempts
                          /\ ~InAttempt(u)'
            /\ (th[t].aborted /\ mutex[MasterOf(t)] = t /\ mutex'[MasterOf(t)] # t) =>
                 /\ th[t].pc = "unlock"
                 /\ th[t].resets >= 1
                 /\ mem[CsOffset(MasterOf(t))].reset = 0]_vars

(* A response of an attempt failed and its reset is half done while a      *)
(* transaction on another bus of the master waits for the mutex.           *)
C33_Witness ==
    \E t, u \in Threads :
       /\ t # u /\ MasterOf(t) = MasterOf(u) /\ th[t].bus # th[u].bus
       /\ ResetPending(t) /\ th[t].pc = "reset2" /\ th[t].nresp > 0
       /\ mem[CsOffset(MasterOf(t))].reset = 1
       /\ th[u].pc = "lock"

(* C34: the master's mutex is taken and released once per attempt: a       *)
(* transaction holds it exactly while inside an attempt, every attempt     *)
(* starts by taking the free mutex and ends by freeing it, so between two  *)
(* attempts of a retried transaction the mutex is free for a transaction   *)
(* on another bus of the master.                                           *)
C34_LockPerAttempt ==
    /\ [](\A t \in Threads : InAttempt(t) <=> mutex[MasterOf(t)] = t)
    /\ [][\A t \in Threads :
            /\ th'[t].attempts # th[t].attempts =>
                 /\ th'[t].attempts = th[t].attempts + 1
                 /\ mutex[MasterOf(t)] = 0 /\ mutex'[MasterOf(t)] = t
                 /\ th[t].pc = "lock"
            /\ th'[t].retry # th[t].retry =>
                 /\ mutex[MasterOf(t)] = t /\ mutex'[MasterOf(t)] = 0
                 /\ th'[t].pc \in {"lock", "done"}
            /\ (InAttempt(t) /\ ~InAttempt(t)') => mutex'[MasterOf(t)] = 0]_vars

(* Between the first and the second attempt of a retried transaction a     *)
(* transaction on another bus of the master took the mutex and ran its     *)
(* whole attempt.                                                          *)
C34_Witness ==
    \E t, u \in Threads :
       /\ t # u /\ MasterOf(t) = MasterOf(u) /\ th[t].bus # th[u].bus
       /\ th[t].pc = "lock" /\ th[t].retry = 1 /\ th[t].attempts = 1
       /\ th[u].pc = "unlock" /\ th[u].attempts = 1 /\ th[u].ret = 0
       /\ th[u].nreq > 0 /\ th[u].nresp = th[u].nreq
       /\ mutex[MasterOf(t)] = u

(* The writer has finished the reset and set br_supported of the master.   *)
MasterReady == ctx.w.pc \in {"list_add", "done"}

(* C35 as stated: a transaction on a bus of a master is inside an attempt  *)
(* only after the reset of scd_smbus_master_add is complete and the        *)
(* capability flag is set, so it never runs during that reset or version   *)
(* read and never reads the flag before it is set.                         *)
C35_NoTransactionBeforeReady ==
    \A t \in Threads : InAttempt(t) => MasterReady

(* The fields the last phase of scd_smbus_do_impl takes from a parameter   *)
(* set p, as the register holds them.                                      *)
PhaseFields(r, p) ==
    [t |-> Trunc(p.t, 2), ed |-> Trunc(p.ed, 1), dat |-> Trunc(Width(r, p), 2)]

(* C36 as stated: no override of a bus is set between the lookup of an     *)
(* attempt on that bus and its end, and the last phase of an attempt       *)
(* carries the fields of one parameter set of the address, the one in      *)
(* force at the lookup or the one in force now, never a mix.               *)
C36_SetNeverDuringAttempt ==
    [][\A t \in Threads :
         /\ (bparams'[th[t].bus] # bparams[th[t].bus]) =>
               th[t].pc \notin {"req", "resp", "br_req", "br_wait", "br_resp"}
         /\ (th[t].pc = "req" /\ th'[t].nreq = th[t].nreq + 1 /\ LastPhase(t)) =>
               LET q == mem'[ReqOffset(MasterOf(t))]
                   got == [t |-> q.t, ed |-> q.ed, dat |-> q.dat]
               IN  got \in {PhaseFields(th[t], InForce(th[t].pseen, th[t].addr)),
                            PhaseFields(th[t], InForce(bparams[th[t].bus], th[t].addr))}
      ]_vars

(* Nothing is left to do: the writer has returned and every call too.      *)
AllReturned == ctx.w.pc = "done" /\ \A t \in Threads : th[t].pc = "done"

LogIdx(log, e) == { i \in 1..Len(log) : log[i].ev \in e }

(* new_object has taken the fail_bus path of a master add.                 *)
BusAddFailed(c) ==
    c.op.kind \in {"smbus", "mdio"} /\ LogIdx(c.log, {"register_failed"}) # {}

(* C38: when adding a bus fails during the creation of a master of either  *)
(* kind, the cleanup removes only what was created: each bus already added *)
(* is unregistered and freed, the master, which was never inserted in the  *)
(* context's list, is not unlinked from any list (so the handler returns   *)
(* and the master is freed), and both master lists are what they were      *)
(* before the call.                                                        *)
C38_FailBusCleanup ==
    [][NewObjectStep /\ BusAddFailed(ctx')
       => LET log == ctx'.log
              n == ctx'.log[CHOOSE i \in LogIdx(ctx'.log, {"register_failed"}) : TRUE].arg
          IN  /\ Cardinality(LogIdx(log, {"register"})) = n
              /\ Cardinality(LogIdx(log, {"unregister"})) = n
              /\ Cardinality(LogIdx(log, {"kfree_bus"})) = n
              /\ LogIdx(log, {"list_del", "list_del_unlinked"}) = {}
              /\ ~ctx'.oops
              /\ Cardinality(LogIdx(log, {"kfree_master"})) = 1
              /\ Masters(ctx') = Masters(ctx)]_vars

(* C39: in the hardware-assisted block read, whenever a poll of the        *)
(* control/status register observes the busy bit clear, the last poll made *)
(* when the step budget is reached included, the engine goes on to read    *)
(* the responses; the timeout error is returned only when the busy bit was *)
(* still set at the last poll.                                             *)
C39_ClearPollReadsResponses ==
    [][\A t \in Threads :
         BlockReadWaited(t) =>
            /\ ~th'[t].brb => th'[t].pc = "br_resp" /\ ~th'[t].aborted
            /\ th'[t].aborted => th'[t].brb]_vars

(* Thread t wrote the last request phase of an attempt.                    *)
RequestsIssued(t) ==
    th[t].pc \in {"req", "br_req"} /\ th'[t].pc \in {"resp", "br_wait"}

(* C40: the length field ss of the request written in phase 0 of an        *)
(* attempt equals the number of phases issued in that attempt, for every   *)
(* transfer, block transfers and messages of more than 63 phases included. *)
C40_LengthFieldIsPhaseCount ==
    [][\A t \in Threads :
         /\ AnyPhaseWritten(t) /\ th[t].i = 0 =>
               mem'[ReqOffset(MasterOf(t))].ss = th[t].ss
         /\ RequestsIssued(t) => th'[t].nreq = th[t].ss]_vars

====
